---------------------------- MODULE Spec2Model ----------------------------
(***************************************************************************)
(* ShootingGame: the pure game-logic transitions of src/src/compute.rs     *)
(* (init_state, move_player_left, move_player_right, player_shoot, tick)   *)
(* over the World value of src/src/entities.rs (EntireGameStateInfo).      *)
(*                                                                         *)
(* A World is a record with the fields of EntireGameStateInfo.  Vec<T> is  *)
(* a sequence, Option<(BonusKind, u32)> is <<>> (None) or <<kind, frames>>.*)
(* FlameBullet positions are f32 in the source; here they are fixed-point  *)
(* integers in units of 1/SCALE of a cell, which is exact for the two      *)
(* velocities 0.3249 and 1.3764 and the few additions a bullet lives for.  *)
(*                                                                         *)
(* A run starts from a World a game can hold (a World init_state builds,   *)
(* or a World in the middle of a game) and applies up to MaxSteps of the   *)
(* four transitions in any order; prev and op record the input and the     *)
(* name of the last transition, so that a property of one call is a state  *)
(* predicate on (prev, op, state).                                         *)
(***************************************************************************)
EXTENDS Integers, Sequences, FiniteSets, TLC

VARIABLES
    state,  \* the current World (game_loop's `state`)
    prev,   \* the input of the last transition: the World it was applied
            \* to, or the arguments init_state was called with
    op,     \* the last transition applied: "init", "move_left", ...
    drawn,  \* the outcomes of the random draws of the last tick
    steps,  \* number of transitions applied so far in this run
    chan,   \* the events in the channel from the input thread to game_loop
    loop    \* the locals of game_loop: its position, frame counter, key map
            \* and cooldowns, the transitions its last iteration applied, and
            \* how many events in the channel were sent before its drain began

vars == <<state, prev, op, drawn, steps, chan, loop>>

----------------------------------------------------------------------------
(* Bounds of the model *)

\* play-field dimensions of the mid-game Worlds
FieldW == 7
FieldH == 9
\* transitions per run
MaxSteps == 2
\* enemies that may fire in one tick
MaxFire == 1
\* iterations of game_loop per run, events the input thread sends per run,
\* events waiting in the channel
LoopFrames == 2
MaxEvents == 3
MaxChan == 2

----------------------------------------------------------------------------
(* Small helpers *)

Max(a, b) == IF a >= b THEN a ELSE b
Min(a, b) == IF a <= b THEN a ELSE b
Abs(a) == IF a < 0 THEN -a ELSE a

\* i32::clamp(lo, hi)
clamp(v, lo, hi) == IF v < lo THEN lo ELSE IF v > hi THEN hi ELSE v

\* u32::saturating_sub(1)
\* faulty variant of saturating_dec: the subtraction goes below 0
saturating_dec_below_zero(n) == n - 1

saturating_dec(n) == IF n = 0 THEN 0 ELSE n - 1

\* the elements of s whose index is not in drop, in order
RECURSIVE DropIdxFrom(_, _, _)
DropIdxFrom(s, drop, i) ==
    IF i > Len(s) THEN <<>>
    ELSE (IF i \in drop THEN <<>> ELSE <<s[i]>>) \o DropIdxFrom(s, drop, i + 1)

DropIdx(s, drop) == DropIdxFrom(s, drop, 1)

RECURSIVE SumOver(_, _)
SumOver(S, f) ==
    IF S = {} THEN 0
    ELSE LET i == CHOOSE j \in S : TRUE
         IN  f[i] + SumOver(S \ {i}, f)

----------------------------------------------------------------------------
(* Difficulty tables and constants *)

Levels == {"Easy", "Medium", "Hard"}

enemy_move_interval(level) ==
    CASE level = "Easy" -> 14
      [] level = "Medium" -> 8
      [] level = "Hard" -> 4

enemy_spawn_rate(level) ==
    CASE level = "Easy" -> 90
      [] level = "Medium" -> 55
      [] level = "Hard" -> 28

\* faulty variant of score_for: every enemy is worth 100 points
score_for_flat(kind) == 100

score_for(kind) ==
    CASE kind = "Spacecraft" -> 100
      [] kind = "Octopus" -> 150

BONUS_SPAWN_INTERVAL == 150
BONUS_MOVE_INTERVAL == 10
POWER_UP_DURATION == 300
MAX_LIVES == 5

\* fixed-point unit of FlameBullet coordinates: 1 cell = SCALE
SCALE == 10000
\* 0.3249 and 1.3764 cells per frame
FLAME_VX_NEAR == 3249
FLAME_VX_FAR == 13764

MOVE_COOLDOWN == 3
SHOOT_COOLDOWN == 8
HOLD_WINDOW == 4
FIREBOMB_MOVE_INTERVAL == 4
FIREBOMB_FUSE == 90
FIREBOMB_CAP == 2
EXPLOSION_KILL_RADIUS_SQ == 16
EXPLOSION_TRIGGER_RADIUS_SQ == 4
EXPLOSION_DISPLAY_FRAMES == 10

\* bullet caps of player_shoot
BULLET_CAP_NORMAL == 3
BULLET_CAP_RAPID == 6
\* horizontal step of a move
MOVE_STEP == 2

None == <<>>
Some(kind, frames) == <<kind, frames>>

----------------------------------------------------------------------------
(* Constructor *)

\* faulty variant of init_state: the player's column is rounded up
init_state_rounded_up(level, width, height, high_score) ==
    [player |-> [x |-> (width + 1) \div 2, y |-> height - 4, lives |-> 3],
     enemies |-> <<>>,
     bullets |-> <<>>,
     flame_bullets |-> <<>>,
     firebombs |-> <<>>,
     explosions |-> <<>>,
     bonus_items |-> <<>>,
     active_power_up |-> None,
     score |-> 0,
     high_score |-> high_score,
     level |-> level,
     status |-> "Playing",
     frame |-> 0,
     width |-> width,
     height |-> height]

init_state(level, width, height, high_score) ==
    [ player |-> [x |-> width \div 2, y |-> height - 4, lives |-> 3],
      enemies |-> <<>>,
      bullets |-> <<>>,
      flame_bullets |-> <<>>,
      firebombs |-> <<>>,
      explosions |-> <<>>,
      bonus_items |-> <<>>,
      active_power_up |-> None,
      score |-> 0,
      high_score |-> high_score,
      level |-> level,
      status |-> "Playing",
      frame |-> 0,
      width |-> width,
      height |-> height ]

----------------------------------------------------------------------------
(* Input-driven transitions *)

\* faulty variant of move_player_left: the step is taken without the clamp at column 1
move_player_left_unclamped(s) ==
    [s EXCEPT !.player.x = s.player.x - MOVE_STEP]

move_player_left(s) ==
    [s EXCEPT !.player.x = Max(s.player.x - MOVE_STEP, 1)]

\* faulty variant of move_player_right: the clamp is one column too far to the right
move_player_right_off_by_one(s) ==
    [s EXCEPT !.player.x = Min(s.player.x + MOVE_STEP, s.width - 1)]

move_player_right(s) ==
    [s EXCEPT !.player.x = Min(s.player.x + MOVE_STEP, s.width - 2)]

is_player_bullet(b) == b.owner = "Player"

\* faulty variant of player_bullet_count: enemy bullets are counted against the cap too
player_bullet_count_all(bullets) == Len(bullets)

\* state.bullets.iter().filter(|b| b.owner == BulletOwner::Player).count()
player_bullet_count(bullets) ==
    Cardinality({i \in 1..Len(bullets) : is_player_bullet(bullets[i])})

power_up_kind(s) ==
    IF s.active_power_up = None THEN "None" ELSE s.active_power_up[1]

\* faulty variant of bullet_cap: the cap of RapidFire applies to every power-up
bullet_cap_always_rapid(kind) == BULLET_CAP_RAPID

\* let cap = if is_rapid { 6 } else { 3 };
bullet_cap(kind) ==
    IF kind = "RapidFire" THEN BULLET_CAP_RAPID ELSE BULLET_CAP_NORMAL

\* the four flame velocities, in firing order
flame_velocities == <<-FLAME_VX_FAR, -FLAME_VX_NEAR, FLAME_VX_NEAR, FLAME_VX_FAR>>

\* faulty variant of shoot_flame_burst: the burst obeys the standard bullet cap
shoot_flame_burst_capped(s) ==
    IF Len(s.flame_bullets) + Len(s.bullets) >= BULLET_CAP_NORMAL THEN s
    ELSE [s EXCEPT !.flame_bullets =
            s.flame_bullets \o [i \in 1..Len(flame_velocities) |->
                                    [x |-> s.player.x * SCALE,
                                     y |-> (s.player.y - 1) * SCALE,
                                     vx |-> flame_velocities[i]]]]

new_flame(s, vx) ==
    [x |-> s.player.x * SCALE, y |-> (s.player.y - 1) * SCALE, vx |-> vx]

shoot_flame_burst(s) ==
    [s EXCEPT !.flame_bullets =
        s.flame_bullets \o [i \in 1..Len(flame_velocities) |->
                                new_flame(s, flame_velocities[i])]]

\* faulty variant of shoot_firebomb: the cap test is > instead of >=
shoot_firebomb_cap_off_by_one(s) ==
    IF Len(s.firebombs) > FIREBOMB_CAP THEN s
    ELSE [s EXCEPT !.firebombs =
            Append(s.firebombs, [x |-> s.player.x, y |-> s.player.y - 1,
                                 fuse |-> FIREBOMB_FUSE])]

new_firebomb(s) ==
    [x |-> s.player.x, y |-> s.player.y - 1, fuse |-> FIREBOMB_FUSE]

shoot_firebomb(s) ==
    IF Len(s.firebombs) >= FIREBOMB_CAP THEN s
    ELSE [s EXCEPT !.firebombs = Append(s.firebombs, new_firebomb(s))]

\* faulty variant of new_bullet: the bullet starts on the player's own row
new_bullet_on_player_row(s) ==
    [x |-> s.player.x, y |-> s.player.y, owner |-> "Player"]

new_bullet(s) ==
    [x |-> s.player.x, y |-> s.player.y - 1, owner |-> "Player"]

\* faulty variant of spread_loop: all three bullets are pushed, without the early break
spread_loop_no_break(s, bullets, cap, i) ==
    bullets \o [j \in 1..3 |->
                  [x |-> clamp(s.player.x + 2 * (j - 2), 1, s.width - 2),
                   y |-> s.player.y - 1,
                   owner |-> "Player"]]

spread_offsets == <<-2, 0, 2>>

\* for dx in [-2, 0, 2] { if count >= cap { break; } bullets.push(..) }
RECURSIVE spread_loop(_, _, _, _)
spread_loop(s, bullets, cap, i) ==
    IF i > Len(spread_offsets) \/ player_bullet_count(bullets) >= cap
    THEN bullets
    ELSE spread_loop(s, Append(bullets,
                                [x |-> clamp(s.player.x + spread_offsets[i],
                                             1, s.width - 2),
                                 y |-> s.player.y - 1,
                                 owner |-> "Player"]),
                     cap, i + 1)

shoot_standard(s) ==
    LET kind == power_up_kind(s)
        cap == bullet_cap(kind)
    IN  IF player_bullet_count(s.bullets) >= cap THEN s
        ELSE IF kind = "SpreadShot"
             THEN [s EXCEPT !.bullets = spread_loop(s, s.bullets, cap, 1)]
             ELSE [s EXCEPT !.bullets = Append(s.bullets, new_bullet(s))]

player_shoot(s) ==
    CASE power_up_kind(s) = "FlameBurst" -> shoot_flame_burst(s)
      [] power_up_kind(s) = "Firebomb" -> shoot_firebomb(s)
      [] OTHER -> shoot_standard(s)

----------------------------------------------------------------------------
(* Per-frame tick.  rnd is the outcome of the draws tick makes from its    *)
(* Rng: spawn_x (gen_range(1..w-1)), spawn_spacecraft (gen_bool(0.6)),     *)
(* fire (the indexes of the enemies whose gen_ratio(1, 220) trial is       *)
(* true), bonus_x (gen_range(2..w-2)) and bonus_kind (gen_range(0..5)).    *)

\* faulty variant of moved_bullet: a player bullet moves up two rows
moved_bullet_two_rows(b) ==
    [b EXCEPT !.y = IF b.owner = "Player" THEN b.y - 2 ELSE b.y + 1]

\* 1. move standard bullets
moved_bullet(b) ==
    [b EXCEPT !.y = IF b.owner = "Player" THEN b.y - 1 ELSE b.y + 1]

\* faulty variant of move_bullets: a bullet reaching row 2 or row height - 3
\* is discarded too
move_bullets_off_by_one(s) ==
    LET moved == [i \in 1..Len(s.bullets) |-> moved_bullet(s.bullets[i])]
    IN  DropIdx(moved, {i \in 1..Len(moved) :
                            moved[i].y <= 2 \/ moved[i].y >= s.height - 3})

move_bullets(s) ==
    LET moved == [i \in 1..Len(s.bullets) |-> moved_bullet(s.bullets[i])]
    IN  DropIdx(moved, {i \in 1..Len(moved) :
                            moved[i].y < 2 \/ moved[i].y > s.height - 3})

\* 2. move flame bullets
moved_flame(fb) == [fb EXCEPT !.x = fb.x + fb.vx, !.y = fb.y - SCALE]

flame_out_of_bounds(fb, w, h) ==
    \/ fb.x < 1 * SCALE
    \/ fb.x > (w - 2) * SCALE
    \/ fb.y < 2 * SCALE
    \/ fb.y > (h - 3) * SCALE

move_flames(s) ==
    LET moved == [i \in 1..Len(s.flame_bullets) |-> moved_flame(s.flame_bullets[i])]
    IN  DropIdx(moved, {i \in 1..Len(moved) :
                            flame_out_of_bounds(moved[i], s.width, s.height)})

\* 3. move enemies
\* faulty variant of move_enemies: the enemies step down in every frame
move_enemies_every_frame(s, frame) ==
    [i \in 1..Len(s.enemies) |-> [s.enemies[i] EXCEPT !.y = @ + 1]]

move_enemies(s, frame) ==
    IF frame % enemy_move_interval(s.level) = 0
    THEN [i \in 1..Len(s.enemies) |-> [s.enemies[i] EXCEPT !.y = @ + 1]]
    ELSE s.enemies

\* 4. spawn a new enemy
\* faulty variant of spawns_enemy: the test reads the frame counter of the
\* input World
spawns_enemy_late(s, frame) == s.frame % enemy_spawn_rate(s.level) = 0

spawns_enemy(s, frame) == frame % enemy_spawn_rate(s.level) = 0

\* faulty variant of spawn_enemy: the new enemy starts in row 1
spawn_enemy_above_field(s, frame, enemies, rnd) ==
    IF spawns_enemy(s, frame)
    THEN Append(enemies, [x |-> rnd.spawn_x, y |-> 1,
                          kind |-> IF rnd.spawn_spacecraft THEN "Spacecraft"
                                   ELSE "Octopus"])
    ELSE enemies

spawn_enemy(s, frame, enemies, rnd) ==
    IF spawns_enemy(s, frame)
    THEN Append(enemies, [x |-> rnd.spawn_x, y |-> 2,
                          kind |-> IF rnd.spawn_spacecraft THEN "Spacecraft"
                                   ELSE "Octopus"])
    ELSE enemies

\* faulty variant of enemy_fire: the bullet starts in the enemy's own row
RECURSIVE enemy_fire_same_row(_, _, _, _)
enemy_fire_same_row(bullets, enemies, fire, i) ==
    IF i > Len(enemies) THEN bullets
    ELSE enemy_fire_same_row(IF i \in fire
                             THEN Append(bullets, [x |-> enemies[i].x,
                                                   y |-> enemies[i].y,
                                                   owner |-> "Enemy"])
                             ELSE bullets,
                             enemies, fire, i + 1)

\* 5. enemies randomly shoot
RECURSIVE enemy_fire(_, _, _, _)
enemy_fire(bullets, enemies, fire, i) ==
    IF i > Len(enemies) THEN bullets
    ELSE enemy_fire(IF i \in fire
                    THEN Append(bullets, [x |-> enemies[i].x,
                                          y |-> enemies[i].y + 1,
                                          owner |-> "Enemy"])
                    ELSE bullets,
                    enemies, fire, i + 1)

\* faulty variant of box_hit: the box is two columns wide on either side
box_hit_wide(bx, by, e) == Abs(bx - e.x) <= 2 /\ (by = e.y \/ by = e.y + 1)

\* the enemy box test shared by steps 6 and 7
box_hit(bx, by, e) == Abs(bx - e.x) <= 1 /\ (by = e.y \/ by = e.y + 1)

\* faulty variant of bullet_collisions: an enemy already claimed is claimed again
RECURSIVE bullet_collisions_shared(_, _, _, _, _)
bullet_collisions_shared(bullets, enemies, bi, killed, used) ==
    IF bi > Len(bullets) THEN <<killed, used>>
    ELSE LET b == bullets[bi]
             cand == {ei \in 1..Len(enemies) : box_hit(b.x, b.y, enemies[ei])}
         IN  IF b.owner # "Player" \/ cand = {}
             THEN bullet_collisions_shared(bullets, enemies, bi + 1, killed, used)
             ELSE LET ei == CHOOSE e \in cand : \A o \in cand : e <= o
                  IN  bullet_collisions_shared(bullets, enemies, bi + 1,
                                               killed \cup {ei}, used \cup {bi})

\* 6. standard player bullets vs enemies: <<killed, used_bullets>>
RECURSIVE bullet_collisions(_, _, _, _, _)
bullet_collisions(bullets, enemies, bi, killed, used) ==
    IF bi > Len(bullets) THEN <<killed, used>>
    ELSE LET b == bullets[bi]
             cand == {ei \in 1..Len(enemies) :
                         box_hit(b.x, b.y, enemies[ei]) /\ ei \notin killed}
         IN  IF b.owner # "Player" \/ cand = {}
             THEN bullet_collisions(bullets, enemies, bi + 1, killed, used)
             ELSE LET ei == CHOOSE e \in cand : \A o \in cand : e <= o
                  IN  bullet_collisions(bullets, enemies, bi + 1,
                                        killed \cup {ei}, used \cup {bi})

\* f32::round() as i32 of a non-negative fixed-point value
round_cell(v) == (v + SCALE \div 2) \div SCALE

\* faulty variant of flame_collisions: an enemy already claimed by a flame
\* is claimed again
RECURSIVE flame_collisions_shared(_, _, _, _, _)
flame_collisions_shared(flames, enemies, fi, killed, used) ==
    IF fi > Len(flames) THEN <<killed, used>>
    ELSE LET bx == round_cell(flames[fi].x)
             by == round_cell(flames[fi].y)
             cand == {ei \in 1..Len(enemies) : box_hit(bx, by, enemies[ei])}
         IN  IF cand = {}
             THEN flame_collisions_shared(flames, enemies, fi + 1, killed, used)
             ELSE LET ei == CHOOSE e \in cand : \A o \in cand : e <= o
                  IN  flame_collisions_shared(flames, enemies, fi + 1,
                                              killed \cup {ei}, used \cup {fi})

\* 7. flame bullets vs enemies: <<flame_killed, used_flames>>
RECURSIVE flame_collisions(_, _, _, _, _)
flame_collisions(flames, enemies, fi, killed, used) ==
    IF fi > Len(flames) THEN <<killed, used>>
    ELSE LET bx == round_cell(flames[fi].x)
             by == round_cell(flames[fi].y)
             cand == {ei \in 1..Len(enemies) :
                         box_hit(bx, by, enemies[ei]) /\ ei \notin killed}
         IN  IF cand = {}
             THEN flame_collisions(flames, enemies, fi + 1, killed, used)
             ELSE LET ei == CHOOSE e \in cand : \A o \in cand : e <= o
                  IN  flame_collisions(flames, enemies, fi + 1,
                                       killed \cup {ei}, used \cup {fi})

score_of(enemies, killed) ==
    SumOver(killed, [i \in 1..Len(enemies) |-> score_for(enemies[i].kind)])

\* faulty variant of enemy_bullet_hits: a bullet one column beside the
\* player hits too
enemy_bullet_hits_wide(bullets, player) ==
    {bi \in 1..Len(bullets) :
        /\ bullets[bi].owner = "Enemy"
        /\ Abs(bullets[bi].x - player.x) <= 1
        /\ bullets[bi].y = player.y}

\* 8. enemy bullets vs player: the indexes of the bullets that hit
enemy_bullet_hits(bullets, player) ==
    {bi \in 1..Len(bullets) :
        /\ bullets[bi].owner = "Enemy"
        /\ bullets[bi].x = player.x
        /\ bullets[bi].y = player.y}

\* faulty variant of enemy_contact: only an enemy in the player's own row
\* counts, not one below it
enemy_contact_same_row(enemies, player) ==
    \E i \in 1..Len(enemies) : enemies[i].y = player.y

enemy_contact(enemies, player) ==
    \E ei \in 1..Len(enemies) : enemies[ei].y >= player.y

\* faulty variant of purge_enemies: an enemy in row height - 2 is kept
purge_enemies_late(enemies, h) ==
    DropIdx(enemies, {i \in 1..Len(enemies) : ~(enemies[i].y <= h - 2)})

\* remove enemies that exited the bottom border
purge_enemies(enemies, h) ==
    DropIdx(enemies, {ei \in 1..Len(enemies) : ~(enemies[ei].y < h - 2)})

\* 9. move firebombs and tick fuses
move_firebombs(s, frame) ==
    [i \in 1..Len(s.firebombs) |->
        [s.firebombs[i] EXCEPT
            !.y = IF frame % FIREBOMB_MOVE_INTERVAL = 0 THEN @ - 1 ELSE @,
            !.fuse = saturating_dec(@)]]

dist_sq(e, x, y) == (e.x - x) * (e.x - x) + (e.y - y) * (e.y - y)

\* faulty variant of should_detonate: a bomb in row 2 flies on
should_detonate_above_field(bomb, enemies) ==
    \/ \E ei \in 1..Len(enemies) :
            dist_sq(enemies[ei], bomb.x, bomb.y) <= EXPLOSION_TRIGGER_RADIUS_SQ
    \/ bomb.fuse = 0
    \/ bomb.y < 2

should_detonate(bomb, enemies) ==
    \/ \E ei \in 1..Len(enemies) :
            dist_sq(enemies[ei], bomb.x, bomb.y) <= EXPLOSION_TRIGGER_RADIUS_SQ
    \/ bomb.fuse = 0
    \/ bomb.y <= 2

\* faulty variant of bomb_kills: the kill radius is the trigger radius
bomb_kills_trigger_radius(bombs, detonating, enemies) ==
    {ei \in 1..Len(enemies) :
        \E bi \in detonating :
            dist_sq(enemies[ei], bombs[bi].x, bombs[bi].y)
                <= EXPLOSION_TRIGGER_RADIUS_SQ}

\* the indexes of the enemies within the kill radius of a detonating bomb
bomb_kills(bombs, detonating, enemies) ==
    {ei \in 1..Len(enemies) :
        \E bi \in detonating :
            dist_sq(enemies[ei], bombs[bi].x, bombs[bi].y)
                <= EXPLOSION_KILL_RADIUS_SQ}

\* 10. tick down existing explosions; add new ones
RECURSIVE detonation_explosions(_, _, _)
detonation_explosions(bombs, detonating, i) ==
    IF i > Len(bombs) THEN <<>>
    ELSE (IF i \in detonating
          THEN <<[x |-> bombs[i].x, y |-> bombs[i].y,
                  frames |-> EXPLOSION_DISPLAY_FRAMES]>>
          ELSE <<>>) \o detonation_explosions(bombs, detonating, i + 1)

tick_explosions(s) ==
    LET live == DropIdx(s.explosions,
                        {i \in 1..Len(s.explosions) : ~(s.explosions[i].frames > 1)})
    IN  [i \in 1..Len(live) |-> [live[i] EXCEPT !.frames = @ - 1]]

\* faulty variant of move_bonus_items: an item is kept in row height - 2
move_bonus_items_past_field(s, frame) ==
    IF frame % BONUS_MOVE_INTERVAL = 0
    THEN LET moved == [i \in 1..Len(s.bonus_items) |->
                          [s.bonus_items[i] EXCEPT !.y = @ + 1]]
         IN  DropIdx(moved, {i \in 1..Len(moved) : ~(moved[i].y <= s.height - 2)})
    ELSE s.bonus_items

\* 11. move bonus items
move_bonus_items(s, frame) ==
    IF frame % BONUS_MOVE_INTERVAL = 0
    THEN LET moved == [i \in 1..Len(s.bonus_items) |->
                          [s.bonus_items[i] EXCEPT !.y = @ + 1]]
         IN  DropIdx(moved, {i \in 1..Len(moved) : ~(moved[i].y < s.height - 2)})
    ELSE s.bonus_items

\* 12. spawn a new bonus item
spawns_bonus(frame) == frame % BONUS_SPAWN_INTERVAL = 0

bonus_kind_of(n) ==
    CASE n = 0 -> "SpreadShot"
      [] n = 1 -> "ExtraLife"
      [] n = 2 -> "RapidFire"
      [] n = 3 -> "FlameBurst"
      [] OTHER -> "Firebomb"

spawn_bonus(frame, items, rnd) ==
    IF spawns_bonus(frame)
    THEN Append(items, [x |-> rnd.bonus_x, y |-> 2,
                        kind |-> bonus_kind_of(rnd.bonus_kind)])
    ELSE items

\* faulty variant of tick_power_up: the power-up is cleared one tick late
tick_power_up_late(s) ==
    IF s.active_power_up = None THEN None
    ELSE IF s.active_power_up[2] > 0
         THEN Some(s.active_power_up[1], s.active_power_up[2] - 1)
         ELSE None

\* 13. tick down the active power-up
tick_power_up(s) ==
    IF s.active_power_up = None THEN None
    ELSE IF s.active_power_up[2] > 1
         THEN Some(s.active_power_up[1], s.active_power_up[2] - 1)
         ELSE None

\* 14. player catches bonus items
caught(b, player) ==
    Abs(b.x - player.x) <= 1 /\ (b.y = player.y \/ b.y = player.y + 1)

\* faulty variant of catch_power_up: the first weapon item caught wins
RECURSIVE catch_power_up_first(_, _, _, _)
catch_power_up_first(items, player, power_up, i) ==
    IF i > Len(items) THEN power_up
    ELSE IF caught(items[i], player) /\ items[i].kind # "ExtraLife"
         THEN Some(items[i].kind, POWER_UP_DURATION)
         ELSE catch_power_up_first(items, player, power_up, i + 1)

RECURSIVE catch_power_up(_, _, _, _)
catch_power_up(items, player, power_up, i) ==
    IF i > Len(items) THEN power_up
    ELSE catch_power_up(items, player,
                        IF caught(items[i], player) /\ items[i].kind # "ExtraLife"
                        THEN Some(items[i].kind, POWER_UP_DURATION)
                        ELSE power_up,
                        i + 1)

\* faulty variant of lives_after: the lives are not capped at MAX_LIVES
lives_after_uncapped(lives, player_hit, extra_lives) ==
    LET hit_lives == IF player_hit THEN saturating_dec(lives) ELSE lives
    IN  hit_lives + extra_lives

\* 15. the player's lives after a tick
lives_after(lives, player_hit, extra_lives) ==
    LET hit_lives == IF player_hit THEN saturating_dec(lives) ELSE lives
    IN  Min(hit_lives + extra_lives, MAX_LIVES)

\* faulty variant of status_of: the game goes on with no life left
status_of_playing(new_lives) == "Playing"

\* 15. the status after a tick
status_of(new_lives) == IF new_lives = 0 THEN "GameOver" ELSE "Playing"

\* faulty variant of tick_result: the fields not computed by the tick are
\* taken from a World freshly built instead of the input World
tick_result_fresh(s, new) ==
    [init_state(s.level, s.width, s.height, s.high_score) EXCEPT
        !.player.lives = new.lives,
        !.enemies = new.enemies,
        !.bullets = new.bullets,
        !.flame_bullets = new.flame_bullets,
        !.firebombs = new.firebombs,
        !.explosions = new.explosions,
        !.bonus_items = new.bonus_items,
        !.active_power_up = new.active_power_up,
        !.score = new.score,
        !.high_score = Max(s.high_score, new.score),
        !.status = status_of(new.lives),
        !.frame = new.frame]

\* the World tick returns: the computed fields, the others from the input
tick_result(s, new) ==
    [s EXCEPT
        !.player.lives = new.lives,
        !.enemies = new.enemies,
        !.bullets = new.bullets,
        !.flame_bullets = new.flame_bullets,
        !.firebombs = new.firebombs,
        !.explosions = new.explosions,
        !.bonus_items = new.bonus_items,
        !.active_power_up = new.active_power_up,
        !.score = new.score,
        !.high_score = Max(s.high_score, new.score),
        !.status = status_of(new.lives),
        !.frame = new.frame]

\* faulty variant of next_frame: the frame counter is carried over unchanged
next_frame_stuck(s) == s.frame

\* let frame = state.frame + 1;
next_frame(s) == s.frame + 1

\* faulty variant of tick: contact damage is evaluated on the enemies left by
\* the firebomb explosions
tick_contact_after_blast(s, rnd) ==
    LET frame == next_frame(s)
        w == s.width
        h == s.height
        bullets1 == move_bullets(s)
        flames2 == move_flames(s)
        enemies4 == spawn_enemy(s, frame, move_enemies(s, frame), rnd)
        bullets5 == enemy_fire(bullets1, enemies4, rnd.fire, 1)
        hit6 == bullet_collisions(bullets5, enemies4, 1, {}, {})
        gain6 == score_of(enemies4, hit6[1])
        enemies6 == DropIdx(enemies4, hit6[1])
        bullets6 == DropIdx(bullets5, hit6[2])
        hit7 == flame_collisions(flames2, enemies6, 1, {}, {})
        gain7 == score_of(enemies6, hit7[1])
        enemies7 == DropIdx(enemies6, hit7[1])
        flames7 == DropIdx(flames2, hit7[2])
        used8 == enemy_bullet_hits(bullets6, s.player)
        bullets8 == DropIdx(bullets6, used8)
        enemies8 == purge_enemies(enemies7, h)
        bombs9 == move_firebombs(s, frame)
        detonating == {i \in 1..Len(bombs9) : should_detonate(bombs9[i], enemies8)}
        firebombs == DropIdx(bombs9, detonating)
        bomb_killed == bomb_kills(bombs9, detonating, enemies8)
        gain9 == score_of(enemies8, bomb_killed)
        enemies9 == DropIdx(enemies8, bomb_killed)
        player_hit == used8 # {} \/ enemy_contact(enemies9, s.player)
        explosions == tick_explosions(s) \o detonation_explosions(bombs9, detonating, 1)
        items12 == spawn_bonus(frame, move_bonus_items(s, frame), rnd)
        caught14 == {i \in 1..Len(items12) : caught(items12[i], s.player)}
        extra_lives == Cardinality({i \in caught14 : items12[i].kind = "ExtraLife"})
        new_power_up == catch_power_up(items12, s.player, tick_power_up(s), 1)
        bonus_items == DropIdx(items12, caught14)
        new_lives == lives_after(s.player.lives, player_hit, extra_lives)
        new_score == s.score + gain6 + gain7 + gain9
    IN  tick_result(s, [lives |-> new_lives,
                        enemies |-> enemies9,
                        bullets |-> bullets8,
                        flame_bullets |-> flames7,
                        firebombs |-> firebombs,
                        explosions |-> explosions,
                        bonus_items |-> bonus_items,
                        active_power_up |-> new_power_up,
                        score |-> new_score,
                        frame |-> frame])

tick(s, rnd) ==
    LET frame == next_frame(s)
        w == s.width
        h == s.height
        bullets1 == move_bullets(s)
        flames2 == move_flames(s)
        enemies4 == spawn_enemy(s, frame, move_enemies(s, frame), rnd)
        bullets5 == enemy_fire(bullets1, enemies4, rnd.fire, 1)
        hit6 == bullet_collisions(bullets5, enemies4, 1, {}, {})
        gain6 == score_of(enemies4, hit6[1])
        enemies6 == DropIdx(enemies4, hit6[1])
        bullets6 == DropIdx(bullets5, hit6[2])
        hit7 == flame_collisions(flames2, enemies6, 1, {}, {})
        gain7 == score_of(enemies6, hit7[1])
        enemies7 == DropIdx(enemies6, hit7[1])
        flames7 == DropIdx(flames2, hit7[2])
        used8 == enemy_bullet_hits(bullets6, s.player)
        player_hit == used8 # {} \/ enemy_contact(enemies7, s.player)
        bullets8 == DropIdx(bullets6, used8)
        enemies8 == purge_enemies(enemies7, h)
        bombs9 == move_firebombs(s, frame)
        detonating == {i \in 1..Len(bombs9) : should_detonate(bombs9[i], enemies8)}
        firebombs == DropIdx(bombs9, detonating)
        bomb_killed == bomb_kills(bombs9, detonating, enemies8)
        gain9 == score_of(enemies8, bomb_killed)
        enemies9 == DropIdx(enemies8, bomb_killed)
        explosions == tick_explosions(s) \o detonation_explosions(bombs9, detonating, 1)
        items12 == spawn_bonus(frame, move_bonus_items(s, frame), rnd)
        caught14 == {i \in 1..Len(items12) : caught(items12[i], s.player)}
        extra_lives == Cardinality({i \in caught14 : items12[i].kind = "ExtraLife"})
        new_power_up == catch_power_up(items12, s.player, tick_power_up(s), 1)
        bonus_items == DropIdx(items12, caught14)
        new_lives == lives_after(s.player.lives, player_hit, extra_lives)
        new_score == s.score + gain6 + gain7 + gain9
    IN  tick_result(s, [lives |-> new_lives,
                        enemies |-> enemies9,
                        bullets |-> bullets8,
                        flame_bullets |-> flames7,
                        firebombs |-> firebombs,
                        explosions |-> explosions,
                        bonus_items |-> bonus_items,
                        active_power_up |-> new_power_up,
                        score |-> new_score,
                        frame |-> frame])

----------------------------------------------------------------------------
(* The Worlds a run starts from: the Worlds init_state builds, and Worlds  *)
(* in the middle of a game on a FieldW x FieldH field.                     *)

WeaponKinds == {"SpreadShot", "RapidFire", "FlameBurst", "Firebomb"}

\* widths and heights init_state is called with (terminal::size())
InitDims == {<<4, FieldH>>, <<FieldW, FieldH>>, <<FieldW + 1, FieldH + 1>>}

InitWorlds ==
    {init_state(l, d[1], d[2], hs) : l \in Levels, d \in InitDims, hs \in {0, 250}}

\* the frame in which the first bonus item reaches the player's row
catch_frame == BONUS_SPAWN_INTERVAL + BONUS_MOVE_INTERVAL * (FieldH - 6)

\* an active power-up caught at catch_frame, seen at its first and last frame
PowerUps ==
    {None} \cup {Some(k, r) : k \in WeaponKinds, r \in {1, POWER_UP_DURATION}}

frame_of(pu) ==
    IF pu = None THEN catch_frame
    ELSE catch_frame + (POWER_UP_DURATION - pu[2])

\* k player bullets in the rows a player bullet lives in, after e enemy bullets
bullet_list(k, e) ==
    [i \in 1..(e + k) |->
        IF i <= e
        THEN [x |-> 1 + (i % (FieldW - 2)), y |-> 2 + i, owner |-> "Enemy"]
        ELSE [x |-> 1 + (i % (FieldW - 2)),
              y |-> FieldH - 5 - (i % 2),
              owner |-> "Player"]]

BulletLists == {bullet_list(k, e) : k \in 0..BULLET_CAP_RAPID, e \in {0, 2}}

\* n firebombs in flight above the player: the i-th has moved up i - 1 rows
firebomb_list(n) ==
    [i \in 1..n |->
        [x |-> 1 + i,
         y |-> FieldH - 4 - i,
         fuse |-> FIREBOMB_FUSE - FIREBOMB_MOVE_INTERVAL * (i - 1) - 1]]

\* the four flames of one burst fired from column px, one tick later
flame_list(px) ==
    move_flames([flame_bullets |-> [i \in 1..Len(flame_velocities) |->
                                      [x |-> px * SCALE,
                                       y |-> (FieldH - 5) * SCALE,
                                       vx |-> flame_velocities[i]]],
                 width |-> FieldW, height |-> FieldH])

mid_game(px, pu, bullets, bombs, flames) ==
    [init_state("Hard", FieldW, FieldH, 250) EXCEPT
        !.player.x = px,
        !.active_power_up = pu,
        !.bullets = bullets,
        !.firebombs = bombs,
        !.flame_bullets = flames,
        !.frame = frame_of(pu)]

MidGameWorlds ==
    {mid_game(px, pu, bl, firebomb_list(n), fl) :
        px \in 1..(FieldW - 2),
        pu \in PowerUps,
        bl \in BulletLists,
        n \in 0..FIREBOMB_CAP,
        fl \in {<<>>, flame_list(1)}}

\* Worlds with enemies, bonus items and enemy bullets around the player, one
\* frame before an enemy spawn, a bonus spawn and an enemy move of the level
busy_frames(level) ==
    {6 * enemy_spawn_rate(level) - 1,
     2 * BONUS_SPAWN_INTERVAL - 1,
     42 * enemy_move_interval(level) - 1}

Scenes ==
    LET px == FieldW \div 2
        py == FieldH - 4
    IN  { \* a player bullet about to hit an enemy, an enemy bullet about to hit;
          \* each scene names the lives it is played with
          [enemies |-> <<[x |-> px, y |-> py - 2, kind |-> "Spacecraft"],
                         [x |-> FieldW - 2, y |-> 2, kind |-> "Octopus"]>>,
           bullets |-> <<[x |-> px, y |-> py - 1, owner |-> "Player"],
                         [x |-> px, y |-> py - 1, owner |-> "Enemy"]>>,
           flame_bullets |-> <<>>,
           bonus_items |-> <<>>,
           firebombs |-> <<>>,
           explosions |-> <<>>,
           active_power_up |-> None,
           lives |-> {0, 1, 2}],
          \* an enemy one row above the player's row, an ExtraLife within reach
          [enemies |-> <<[x |-> 1, y |-> py - 1, kind |-> "Octopus"]>>,
           bullets |-> <<>>,
           flame_bullets |-> <<>>,
           bonus_items |-> <<[x |-> px + 1, y |-> py - 1, kind |-> "ExtraLife"],
                             [x |-> px - 1, y |-> py, kind |-> "SpreadShot"]>>,
           firebombs |-> <<>>,
           explosions |-> <<>>,
           active_power_up |-> Some("RapidFire", 2),
           lives |-> {0, 1, MAX_LIVES}],
          \* a firebomb below an enemy
          [enemies |-> <<[x |-> px, y |-> 2, kind |-> "Spacecraft"],
                         [x |-> px + 2, y |-> 3, kind |-> "Octopus"]>>,
           bullets |-> <<>>,
           flame_bullets |-> <<>>,
           bonus_items |-> <<>>,
           firebombs |-> <<[x |-> px, y |-> py - 1, fuse |-> FIREBOMB_FUSE - 1]>>,
           explosions |-> <<>>,
           active_power_up |-> Some("Firebomb", POWER_UP_DURATION \div 2),
           lives |-> {3}],
          \* two player bullets of a spread below one enemy
          [enemies |-> <<[x |-> px, y |-> 2, kind |-> "Spacecraft"]>>,
           bullets |-> <<[x |-> px - 1, y |-> 3, owner |-> "Player"],
                         [x |-> px + 1, y |-> 3, owner |-> "Player"]>>,
           flame_bullets |-> <<>>,
           bonus_items |-> <<>>,
           firebombs |-> <<>>,
           explosions |-> <<>>,
           active_power_up |-> Some("SpreadShot", POWER_UP_DURATION \div 2),
           lives |-> {3}],
          \* a player bullet two rows below an Octopus, another two columns
          \* away from every enemy
          [enemies |-> <<[x |-> 1, y |-> 2, kind |-> "Octopus"],
                         [x |-> FieldW - 2, y |-> 3, kind |-> "Spacecraft"]>>,
           bullets |-> <<[x |-> 1, y |-> 4, owner |-> "Player"],
                         [x |-> FieldW - 4, y |-> 4, owner |-> "Player"]>>,
           flame_bullets |-> <<>>,
           bonus_items |-> <<>>,
           firebombs |-> <<>>,
           explosions |-> <<>>,
           active_power_up |-> None,
           lives |-> {3}],
          \* one player bullet below two enemies
          [enemies |-> <<[x |-> px - 1, y |-> 3, kind |-> "Spacecraft"],
                         [x |-> px + 1, y |-> 3, kind |-> "Octopus"]>>,
           bullets |-> <<[x |-> px, y |-> 4, owner |-> "Player"]>>,
           flame_bullets |-> <<>>,
           bonus_items |-> <<>>,
           firebombs |-> <<>>,
           explosions |-> <<>>,
           active_power_up |-> None,
           lives |-> {3}],
          \* bullets in the first and last rows of the play-field
          [enemies |-> <<>>,
           bullets |-> <<[x |-> 1, y |-> 2, owner |-> "Player"],
                         [x |-> 2, y |-> 3, owner |-> "Player"],
                         [x |-> FieldW - 2, y |-> FieldH - 3, owner |-> "Enemy"],
                         [x |-> 1, y |-> FieldH - 4, owner |-> "Enemy"]>>,
           flame_bullets |-> <<>>,
           bonus_items |-> <<>>,
           firebombs |-> <<>>,
           explosions |-> <<>>,
           active_power_up |-> None,
           lives |-> {3}],
          \* an enemy in the last row of the play-field, another right above
          \* the player, an ExtraLife within reach
          [enemies |-> <<[x |-> 1, y |-> FieldH - 3, kind |-> "Spacecraft"],
                         [x |-> px, y |-> py - 1, kind |-> "Octopus"]>>,
           bullets |-> <<[x |-> px, y |-> py - 1, owner |-> "Enemy"]>>,
           flame_bullets |-> <<>>,
           bonus_items |-> <<[x |-> px, y |-> py - 1, kind |-> "ExtraLife"]>>,
           firebombs |-> <<>>,
           explosions |-> <<>>,
           active_power_up |-> None,
           lives |-> {0, 2, MAX_LIVES}],
          \* two weapon items and an ExtraLife in the player's catch box
          [enemies |-> <<>>,
           bullets |-> <<>>,
           flame_bullets |-> <<>>,
           bonus_items |-> <<[x |-> px - 1, y |-> py, kind |-> "FlameBurst"],
                             [x |-> px, y |-> py, kind |-> "ExtraLife"],
                             [x |-> px + 1, y |-> py, kind |-> "Firebomb"],
                             [x |-> px + 2, y |-> py, kind |-> "RapidFire"]>>,
           firebombs |-> <<>>,
           explosions |-> <<>>,
           active_power_up |-> Some("SpreadShot", POWER_UP_DURATION \div 2),
           lives |-> {3}],
          \* two firebombs in flight below an enemy, two more enemies apart
          [enemies |-> <<[x |-> FieldW - 2, y |-> 2, kind |-> "Octopus"],
                         [x |-> FieldW - 4, y |-> 2, kind |-> "Spacecraft"],
                         [x |-> FieldW - 6, y |-> 2, kind |-> "Spacecraft"]>>,
           bullets |-> <<>>,
           flame_bullets |-> <<>>,
           bonus_items |-> <<>>,
           firebombs |-> <<[x |-> FieldW - 2, y |-> py - 1, fuse |-> FIREBOMB_FUSE - 1],
                           [x |-> FieldW - 2, y |-> py - 2, fuse |-> FIREBOMB_FUSE - 5]>>,
           explosions |-> <<>>,
           active_power_up |-> Some("Firebomb", POWER_UP_DURATION \div 2),
           lives |-> {3}],
          \* firebombs with no enemy near: one about to reach row 2, one whose
          \* fuse runs out; two explosions on display
          [enemies |-> <<>>,
           bullets |-> <<>>,
           flame_bullets |-> <<>>,
           bonus_items |-> <<>>,
           firebombs |-> <<[x |-> 1, y |-> 3, fuse |-> FIREBOMB_FUSE \div 2],
                           [x |-> px, y |-> py - 1, fuse |-> 1]>>,
           explosions |-> <<[x |-> px, y |-> 2, frames |-> 1],
                            [x |-> 1, y |-> 3, frames |-> 2]>>,
           active_power_up |-> None,
           lives |-> {3}],
          \* a flame burst just fired behind a standard bullet, below an enemy
          [enemies |-> <<[x |-> px, y |-> py - 3, kind |-> "Spacecraft"]>>,
           bullets |-> <<[x |-> px, y |-> py - 2, owner |-> "Player"]>>,
           flame_bullets |-> [i \in 1..Len(flame_velocities) |->
                                [x |-> px * SCALE,
                                 y |-> (py - 1) * SCALE,
                                 vx |-> flame_velocities[i]]],
           bonus_items |-> <<>>,
           firebombs |-> <<>>,
           explosions |-> <<>>,
           active_power_up |-> Some("FlameBurst", POWER_UP_DURATION - 1),
           lives |-> {3}],
          \* a flame burst just fired below two enemies
          [enemies |-> <<[x |-> px, y |-> py - 3, kind |-> "Octopus"],
                         [x |-> px + 1, y |-> py - 3, kind |-> "Spacecraft"]>>,
           bullets |-> <<>>,
           flame_bullets |-> [i \in 1..Len(flame_velocities) |->
                                [x |-> px * SCALE,
                                 y |-> (py - 1) * SCALE,
                                 vx |-> flame_velocities[i]]],
           bonus_items |-> <<>>,
           firebombs |-> <<>>,
           explosions |-> <<>>,
           active_power_up |-> Some("FlameBurst", POWER_UP_DURATION \div 2),
           lives |-> {3}],
          \* an enemy two rows above the row a bullet is fired into, one
          \* column aside
          [enemies |-> <<[x |-> px + 1, y |-> py - 3, kind |-> "Octopus"]>>,
           bullets |-> <<>>,
           flame_bullets |-> <<>>,
           bonus_items |-> <<>>,
           firebombs |-> <<>>,
           explosions |-> <<>>,
           active_power_up |-> None,
           lives |-> {3}],
          \* an enemy in the player's row, a firebomb just fired next to it
          [enemies |-> <<[x |-> px + 1, y |-> py, kind |-> "Spacecraft"]>>,
           bullets |-> <<>>,
           flame_bullets |-> <<>>,
           bonus_items |-> <<>>,
           firebombs |-> <<[x |-> px, y |-> py - 1, fuse |-> FIREBOMB_FUSE - 1]>>,
           explosions |-> <<>>,
           active_power_up |-> Some("Firebomb", POWER_UP_DURATION \div 2),
           lives |-> {1, 3}] }

busy_world(level, frame, scene, lives) ==
    [init_state(level, FieldW, FieldH, 250) EXCEPT
        !.player.lives = lives,
        !.enemies = scene.enemies,
        !.bullets = scene.bullets,
        !.flame_bullets = scene.flame_bullets,
        !.bonus_items = scene.bonus_items,
        !.firebombs = scene.firebombs,
        !.explosions = scene.explosions,
        !.active_power_up = scene.active_power_up,
        !.score = 100,
        !.status = IF lives = 0 THEN "GameOver" ELSE "Playing",
        !.frame = frame]

BusyWorlds ==
    UNION {UNION {{busy_world(l, f, sc, lv) : f \in busy_frames(l), lv \in sc.lives} :
                     sc \in Scenes} :
           l \in Levels}

\* a World one frame before a bonus spawn that falls on an enemy spawn
DoubleSpawnWorlds ==
    {busy_world("Easy", 3 * BONUS_SPAWN_INTERVAL - 1, sc, 1) :
        sc \in {s \in Scenes : s.bonus_items # <<>> /\ s.bullets = <<>>}}

\* a new game on a field of 2 columns or of 4 columns, ticked up to the
\* frame before its first enemy spawn or its first bonus spawn
NarrowWorlds ==
    {[init_state("Hard", 2, FieldH, 0) EXCEPT
         !.frame = enemy_spawn_rate("Hard") - 1]}
    \cup {[init_state(l, 4, FieldH, 0) EXCEPT !.frame = BONUS_SPAWN_INTERVAL - 1] :
             l \in Levels}

StartWorlds ==
    InitWorlds \cup MidGameWorlds \cup BusyWorlds \cup DoubleSpawnWorlds
    \cup NarrowWorlds

\* tick draws a spawn column from an empty range: gen_range(1..(w - 1)) on
\* an enemy-spawn frame, gen_range(2..(w - 2)) on a bonus-spawn frame; the
\* draw panics and tick returns no World
tick_panics(s) ==
    LET frame == next_frame(s)
    IN  \/ spawns_enemy(s, frame) /\ ~(1 < s.width - 1)
        \/ spawns_bonus(frame) /\ ~(2 < s.width - 2)

\* the outcomes of the draws tick makes on World s
Draws(s) ==
    LET frame == next_frame(s)
        n == Len(s.enemies) + (IF spawns_enemy(s, frame) THEN 1 ELSE 0)
    IN  [spawn_x : IF spawns_enemy(s, frame) THEN 1..(s.width - 2) ELSE {0},
         spawn_spacecraft : IF spawns_enemy(s, frame) THEN BOOLEAN ELSE {TRUE},
         fire : {F \in SUBSET (1..n) : Cardinality(F) <= MaxFire},
         bonus_x : IF spawns_bonus(frame) THEN 2..(s.width - 3) ELSE {0},
         bonus_kind : IF spawns_bonus(frame) THEN 0..4 ELSE {0}]

\* the keys of the model: move left, move right, shoot, quit, restart
Keys == {"Left", "Right", "Space", "q", "r"}

\* the locals of game_loop at the start of the drain of iteration `frame`
loop_locals(frame) ==
    [pc |-> "drain",
     frame |-> frame,
     key_frame |-> [k \in Keys |-> 0],
     move_cooldown |-> 0,
     shoot_cooldown |-> 0,
     applied |-> <<>>,
     iterations |-> 0,
     sent |-> 0,
     pending |-> 0]

\* the draws of a transition that draws nothing
NoDraws ==
    [spawn_x |-> 0, spawn_spacecraft |-> TRUE, fire |-> {},
     bonus_x |-> 0, bonus_kind |-> 0]

Init ==
    /\ state \in StartWorlds
    /\ prev = state
    /\ op = "none"
    /\ drawn = NoDraws
    /\ steps = 0
    /\ chan = <<>>
    /\ loop = loop_locals(state.frame + 1)

\* the bookkeeping of one applied transition
Applied(name) ==
    /\ prev' = state
    /\ op' = name
    /\ steps' = steps + 1
    /\ UNCHANGED <<chan, loop>>

\* run() starts a game: init_state on the chosen level and the terminal size
NewGame ==
    /\ steps < MaxSteps
    /\ op # "panic"
    /\ \E l \in Levels, d \in InitDims, hs \in {0, 250} :
          /\ state' = init_state(l, d[1], d[2], hs)
          /\ prev' = [level |-> l, width |-> d[1], height |-> d[2],
                      high_score |-> hs]
    /\ op' = "init"
    /\ drawn' = NoDraws
    /\ steps' = steps + 1
    /\ UNCHANGED <<chan, loop>>

MoveLeft ==
    /\ steps < MaxSteps
    /\ op # "panic"
    /\ state' = move_player_left(state)
    /\ Applied("move_left")
    /\ drawn' = NoDraws

MoveRight ==
    /\ steps < MaxSteps
    /\ op # "panic"
    /\ state' = move_player_right(state)
    /\ Applied("move_right")
    /\ drawn' = NoDraws

Shoot ==
    /\ steps < MaxSteps
    /\ op # "panic"
    /\ state' = player_shoot(state)
    /\ Applied("shoot")
    /\ drawn' = NoDraws

\* tick either returns the next World or panics in a draw; a panic ends
\* the program with the World as it was
Tick ==
    /\ steps < MaxSteps
    /\ op # "panic"
    /\ \/ /\ ~tick_panics(state)
          /\ \E rnd \in Draws(state) : state' = tick(state, rnd) /\ drawn' = rnd
          /\ Applied("tick")
       \/ /\ tick_panics(state)
          /\ state' = state
          /\ drawn' = NoDraws
          /\ Applied("panic")

Next == NewGame \/ MoveLeft \/ MoveRight \/ Shoot \/ Tick

Spec == Init /\ [][Next]_vars

----------------------------------------------------------------------------
(* The fall of a bonus item: the ticks game_loop applies, one per          *)
(* iteration while the game is Playing, from the frame before a bonus      *)
(* spawn until the item spawned has left the field.                        *)

\* the frame in which an item spawned at frame 2 * BONUS_SPAWN_INTERVAL leaves
\* a field of FieldH rows
FallEnd == 2 * BONUS_SPAWN_INTERVAL + BONUS_MOVE_INTERVAL * (FieldH - 4)

\* a game on the field of the model one frame before its second bonus spawn,
\* no enemy left, the player at the left border or in the middle; a game on
\* a field of 4 rows one frame before its first bonus spawn, one life lost
\* to the enemy spawned at frame 90
FallWorlds ==
    {[init_state("Easy", FieldW, FieldH, 0) EXCEPT
         !.player.x = x, !.frame = 2 * BONUS_SPAWN_INTERVAL - 1] : x \in {1, FieldW \div 2}}
    \cup {[init_state("Easy", FieldW, 4, 0) EXCEPT
              !.player.lives = 2, !.frame = BONUS_SPAWN_INTERVAL - 1]}

FallInit ==
    /\ state \in FallWorlds
    /\ prev = state
    /\ op = "none"
    /\ drawn = NoDraws
    /\ steps = 0
    /\ chan = <<>>
    /\ loop = loop_locals(state.frame + 1)

\* game_loop applies tick in every iteration while the status is Playing
FallTick ==
    /\ state.status = "Playing"
    /\ state.frame < FallEnd
    /\ ~tick_panics(state)
    /\ \E rnd \in Draws(state) : state' = tick(state, rnd) /\ drawn' = rnd
    /\ Applied("tick")

FallSpec == FallInit /\ [][FallTick]_vars /\ WF_vars(FallTick)

----------------------------------------------------------------------------
(* The hosting loop: the input thread feeds the channel, game_loop drains  *)
(* it at the start of every iteration, applies the held-key actions and    *)
(* the tick, and renders.                                                  *)

\* the events the input thread reads: key events, and one that is no key
\* event (a resize, the mouse)
Events ==
    {[kind |-> "Press", code |-> k] : k \in Keys}
    \cup {[kind |-> "Release", code |-> k] : k \in {"Left", "Space"}}
    \cup {[kind |-> "Repeat", code |-> "Space"],
          [kind |-> "Other", code |-> "none"]}

\* Returns true if `key` was seen within the last HOLD_WINDOW frames; a key
\* that is not in the map has last frame 0
is_held(key_frame, key, frame) ==
    key_frame[key] # 0 /\ Max(frame - key_frame[key], 0) <= HOLD_WINDOW

\* the movement game_loop applies in this iteration, or "none"
move_applied(lp, s) ==
    IF s.status = "Playing" /\ lp.move_cooldown = 0
    THEN IF is_held(lp.key_frame, "Left", lp.frame) THEN "move_left"
         ELSE IF is_held(lp.key_frame, "Right", lp.frame) THEN "move_right"
         ELSE "none"
    ELSE "none"

\* faulty variant of shoot_applied: the shot is applied whatever the status
shoot_applied_any_status(lp, s) ==
    /\ lp.shoot_cooldown = 0
    /\ is_held(lp.key_frame, "Space", lp.frame)

\* game_loop applies player_shoot in this iteration
shoot_applied(lp, s) ==
    /\ s.status = "Playing"
    /\ lp.shoot_cooldown = 0
    /\ is_held(lp.key_frame, "Space", lp.frame)

\* faulty variant of tick_applied: the tick is applied whatever the status
tick_applied_always(s) == TRUE

\* game_loop applies tick in this iteration
tick_applied(s) == s.status = "Playing"

\* a new game, and a game with one life left and an enemy bullet one row
\* above the player
LoopWorlds ==
    {init_state("Easy", FieldW, FieldH, 0),
     [init_state("Easy", FieldW, FieldH, 0) EXCEPT
         !.player.lives = 1,
         !.bullets = <<[x |-> FieldW \div 2, y |-> FieldH - 5, owner |-> "Enemy"]>>,
         !.frame = BONUS_MOVE_INTERVAL]}

LoopInit ==
    /\ state \in LoopWorlds
    /\ prev = state
    /\ op = "none"
    /\ drawn = NoDraws
    /\ steps = 0
    /\ chan = <<>>
    /\ loop = loop_locals(state.frame + 1)

\* the input thread reads an event and sends it through the channel
Send ==
    /\ loop.pc \in {"drain", "frame"}
    /\ loop.sent < MaxEvents
    /\ Len(chan) < MaxChan
    /\ \E e \in Events : chan' = Append(chan, e)
    /\ loop' = [loop EXCEPT !.sent = @ + 1]
    /\ UNCHANGED <<state, prev, op, drawn, steps>>

\* one turn of the drain loop, `while let Ok(Event::Key(..)) = rx.try_recv()`:
\* an empty channel or an event that is no key event ends the drain, a key
\* event is handled and the drain goes on, unless it makes game_loop return
Drain ==
    /\ loop.pc = "drain"
    /\ IF chan = <<>>
       THEN /\ loop' = [loop EXCEPT !.pc = "frame"]
            /\ chan' = chan
       ELSE LET e == Head(chan)
                received == [loop EXCEPT !.pending = saturating_dec(@)]
            IN  /\ chan' = Tail(chan)
                /\ loop' =
                      CASE e.kind = "Other" -> [received EXCEPT !.pc = "frame"]
                        [] e.kind = "Press" ->
                             [received EXCEPT
                                 !.key_frame[e.code] = loop.frame,
                                 !.pc = IF e.code = "q" THEN "quit"
                                        ELSE IF e.code = "r" /\ state.status = "GameOver"
                                             THEN "restart"
                                        ELSE "drain"]
                        [] e.kind = "Repeat" ->
                             [received EXCEPT !.key_frame[e.code] = loop.frame]
                        [] OTHER -> [received EXCEPT !.key_frame[e.code] = 0]
    /\ prev' = state
    /\ op' = "drain"
    /\ UNCHANGED <<state, drawn, steps>>

\* the rest of the iteration: the held-key actions, the cooldowns, the tick
\* and the rendering of the World; then the next iteration starts
Frame ==
    /\ loop.pc = "frame"
    /\ loop.iterations < LoopFrames
    /\ LET mv == move_applied(loop, state)
           moved == CASE mv = "move_left" -> move_player_left(state)
                      [] mv = "move_right" -> move_player_right(state)
                      [] OTHER -> state
           sh == shoot_applied(loop, state)
           shot == IF sh THEN player_shoot(moved) ELSE moved
           tk == tick_applied(shot)
       IN  /\ ~(tk /\ tick_panics(shot))
           /\ \E rnd \in (IF tk THEN Draws(shot) ELSE {NoDraws}) :
                 /\ state' = (IF tk THEN tick(shot, rnd) ELSE shot)
                 /\ drawn' = rnd
           /\ loop' = [loop EXCEPT
                 !.move_cooldown =
                     saturating_dec(IF mv # "none" THEN MOVE_COOLDOWN ELSE @),
                 !.shoot_cooldown =
                     saturating_dec(IF sh THEN SHOOT_COOLDOWN ELSE @),
                 !.applied = (IF mv # "none" THEN <<mv>> ELSE <<>>)
                             \o (IF sh THEN <<"shoot">> ELSE <<>>)
                             \o (IF tk THEN <<"tick">> ELSE <<>>),
                 !.frame = @ + 1,
                 !.iterations = @ + 1,
                 !.pending = Len(chan),
                 !.pc = "drain"]
    /\ prev' = state
    /\ op' = "frame"
    /\ UNCHANGED <<chan, steps>>

LoopNext == Send \/ Drain \/ Frame

LoopSpec == LoopInit /\ [][LoopNext]_vars

----------------------------------------------------------------------------
(* Vocabulary of the properties.  These are stated on the Worlds alone and *)
(* use none of the operators above that compute a transition.              *)

InputOps == {"move_left", "move_right", "shoot"}

\* every field of World a other than the listed ones equals that of World b
SameExcept(a, b, fields) ==
    /\ DOMAIN a = DOMAIN b
    /\ \A f \in DOMAIN a \ fields : a[f] = b[f]

\* the number of player-owned standard bullets of a list
PlayerOwned(bullets) ==
    Cardinality({i \in DOMAIN bullets : bullets[i].owner = "Player"})

ActiveKind(w) == IF w.active_power_up = <<>> THEN "None" ELSE w.active_power_up[1]

----------------------------------------------------------------------------
(* C1: every tick returns a World whose frame counter is the input's plus  *)
(* one, and move_left, move_right and shoot never change the frame counter.*)
C1_FramePlusOne ==
    /\ op = "tick" => state.frame = prev.frame + 1
    /\ op \in InputOps => state.frame = prev.frame

\* a tick applied after a shot, from a World in the middle of a game
C1_Witness ==
    /\ op = "tick"
    /\ steps = 2
    /\ prev.frame = catch_frame
    /\ state.frame = catch_frame + 1

(* C4: in every World reached by any sequence of transitions on a field of *)
(* width >= 4 the player's column lies in [1, width-2]; move_left at       *)
(* column 1 stays at 1 and move_right at column width-2 stays at width-2.  *)
C4_PlayerInsideBorders ==
    state.width >= 4 =>
        /\ 1 <= state.player.x
        /\ state.player.x <= state.width - 2
        /\ (op = "move_left" /\ prev.player.x = 1) => state.player.x = 1
        /\ (op = "move_right" /\ prev.player.x = prev.width - 2) =>
               state.player.x = prev.width - 2

\* move_left at column 1 stays at column 1
C4_Witness ==
    /\ op = "move_left"
    /\ prev.player.x = 1
    /\ state.player.x = 1

(* C5: move_left changes only player.x, to max(1, x - 2); move_right       *)
(* changes only player.x, to min(width-2, x + 2); player.y, lives and      *)
(* every other field of the World are those of the input.                  *)
C5_MoveChangesOnlyX ==
    /\ op \in {"move_left", "move_right"} =>
          /\ SameExcept(state, prev, {"player"})
          /\ SameExcept(state.player, prev.player, {"x"})
    /\ op = "move_left" =>
          state.player.x = (IF prev.player.x - 2 >= 1 THEN prev.player.x - 2 ELSE 1)
    /\ op = "move_right" =>
          state.player.x = (IF prev.player.x + 2 <= prev.width - 2
                            THEN prev.player.x + 2 ELSE prev.width - 2)

\* move_right one column short of the right border, with entities in flight
C5_Witness ==
    /\ op = "move_right"
    /\ prev.player.x = prev.width - 3
    /\ state.player.x = prev.width - 2
    /\ state.bullets # <<>>
    /\ state.firebombs # <<>>

(* C6: with no power-up, SpreadShot or RapidFire active, shoot returns    *)
(* its input unchanged exactly when the player-owned bullets already       *)
(* present number at least the cap (6 under RapidFire, else 3); enemy      *)
(* bullets do not count; after the call the player-owned bullets number at *)
(* most max(cap, their number before).                                     *)
C6_ShootCap ==
    (op = "shoot" /\ ActiveKind(prev) \in {"None", "SpreadShot", "RapidFire"}) =>
        LET cap == IF ActiveKind(prev) = "RapidFire" THEN 6 ELSE 3
            before == PlayerOwned(prev.bullets)
            after == PlayerOwned(state.bullets)
        IN  /\ (state = prev) <=> (before >= cap)
            /\ after <= (IF cap >= before THEN cap ELSE before)

\* two player bullets among four bullets: the shot is not blocked
C6_Witness ==
    /\ op = "shoot"
    /\ ActiveKind(prev) = "None"
    /\ Len(prev.bullets) = 4
    /\ PlayerOwned(prev.bullets) = 2
    /\ PlayerOwned(state.bullets) = 3

(* C7: with no power-up or RapidFire active and the player-owned bullets   *)
(* below the cap, shoot appends exactly one bullet, owned by Player, at    *)
(* column player.x and row player.y - 1, to the end of the bullet list,    *)
(* and changes nothing else.                                               *)
C7_ShootAppendsOne ==
    (/\ op = "shoot"
     /\ ActiveKind(prev) \in {"None", "RapidFire"}
     /\ PlayerOwned(prev.bullets) < (IF ActiveKind(prev) = "RapidFire" THEN 6 ELSE 3)) =>
        /\ state.bullets = prev.bullets \o
              <<[x |-> prev.player.x, y |-> prev.player.y - 1, owner |-> "Player"]>>
        /\ SameExcept(state, prev, {"bullets"})

\* the sixth bullet under RapidFire
C7_Witness ==
    /\ op = "shoot"
    /\ ActiveKind(prev) = "RapidFire"
    /\ PlayerOwned(prev.bullets) = 5
    /\ PlayerOwned(state.bullets) = 6

(* C8: with SpreadShot active and k < 3 player-owned bullets present,      *)
(* shoot appends exactly 3 - k player bullets, the first 3 - k of the      *)
(* columns x-2, x, x+2 (each clamped to [1, width-2]) at row player.y - 1, *)
(* so the player-owned bullets never exceed 3 after the call.              *)
C8_SpreadShot ==
    (/\ op = "shoot"
     /\ ActiveKind(prev) = "SpreadShot"
     /\ PlayerOwned(prev.bullets) < 3) =>
        LET k == PlayerOwned(prev.bullets)
            Col(c) == IF c < 1 THEN 1
                      ELSE IF c > prev.width - 2 THEN prev.width - 2 ELSE c
            B(c) == [x |-> Col(c), y |-> prev.player.y - 1, owner |-> "Player"]
            three == <<B(prev.player.x - 2), B(prev.player.x), B(prev.player.x + 2)>>
        IN  /\ state.bullets = prev.bullets \o SubSeq(three, 1, 3 - k)
            /\ PlayerOwned(state.bullets) <= 3
            /\ SameExcept(state, prev, {"bullets"})

\* one player bullet in flight, the player at the left border: two are added
C8_Witness ==
    /\ op = "shoot"
    /\ ActiveKind(prev) = "SpreadShot"
    /\ PlayerOwned(prev.bullets) = 1
    /\ prev.player.x = 1
    /\ Len(state.bullets) = Len(prev.bullets) + 2

(* C9: with FlameBurst active every shoot appends exactly 4 flame bullets, *)
(* whatever flames and bullets exist, all at column player.x and row       *)
(* player.y - 1 with velocities -1.3764, -0.3249, +0.3249, +1.3764 in that *)
(* order, and leaves the bullet and firebomb lists unchanged.              *)
C9_FlameBurst ==
    (op = "shoot" /\ ActiveKind(prev) = "FlameBurst") =>
        LET F(v) == [x |-> prev.player.x * 10000,
                     y |-> (prev.player.y - 1) * 10000,
                     vx |-> v]
        IN  /\ state.flame_bullets =
                  prev.flame_bullets \o <<F(-13764), F(-3249), F(3249), F(13764)>>
            /\ SameExcept(state, prev, {"flame_bullets"})

\* a second burst in a row, with six player bullets in flight
C9_Witness ==
    /\ op = "shoot"
    /\ steps = 2
    /\ ActiveKind(prev) = "FlameBurst"
    /\ PlayerOwned(prev.bullets) = 6
    /\ Len(prev.flame_bullets) >= 4
    /\ Len(state.flame_bullets) = Len(prev.flame_bullets) + 4

(* C10, as stated: with Firebomb active shoot appends one firebomb at      *)
(* (player.x, player.y) with fuse 90 when fewer than 2 are in flight and   *)
(* returns its input otherwise; no World holds more than 2 firebombs.      *)
C10_FirebombAtPlayerRow ==
    /\ (op = "shoot" /\ ActiveKind(prev) = "Firebomb") =>
          IF Len(prev.firebombs) < 2
          THEN /\ state.firebombs = prev.firebombs \o
                     <<[x |-> prev.player.x, y |-> prev.player.y, fuse |-> 90]>>
               /\ SameExcept(state, prev, {"firebombs"})
          ELSE state = prev
    /\ Len(state.firebombs) <= 2

(* C10, amended: with Firebomb active shoot appends one firebomb one row   *)
(* above the player, at (player.x, player.y - 1), with fuse 90 when fewer  *)
(* than 2 are in flight and returns its input otherwise; no World holds    *)
(* more than 2 firebombs.                                                  *)
C10_FirebombAbovePlayer ==
    /\ (op = "shoot" /\ ActiveKind(prev) = "Firebomb") =>
          IF Len(prev.firebombs) < 2
          THEN /\ state.firebombs = prev.firebombs \o
                     <<[x |-> prev.player.x, y |-> prev.player.y - 1, fuse |-> 90]>>
               /\ SameExcept(state, prev, {"firebombs"})
          ELSE state = prev
    /\ Len(state.firebombs) <= 2

\* the second firebomb is fired, and a third shot in the same run is refused
C10_Witness ==
    /\ op = "shoot"
    /\ steps = 2
    /\ ActiveKind(prev) = "Firebomb"
    /\ Len(prev.firebombs) = 2
    /\ prev.firebombs[2] = [x |-> prev.player.x, y |-> prev.player.y - 1, fuse |-> 90]
    /\ state = prev

----------------------------------------------------------------------------
(* C11: the World init_state returns.  For every call                      *)
(* init_state(level, width, height, high_score) the player stands at       *)
(* column width / 2 (integer division) and row height - 4 with 3 lives,    *)
(* the six entity collections are empty, no power-up is active, score is   *)
(* 0, status is Playing, frame is 0, and level, width, height and          *)
(* high_score are the arguments.                                           *)
C11_InitWorld ==
    op = "init" =>
        /\ 2 * state.player.x <= prev.width
        /\ prev.width < 2 * state.player.x + 2
        /\ state.player.y + 4 = prev.height
        /\ state.player.lives = 3
        /\ \A f \in {"enemies", "bullets", "flame_bullets", "firebombs",
                     "explosions", "bonus_items"} : state[f] = <<>>
        /\ state.active_power_up = <<>>
        /\ state.score = 0
        /\ state.status = "Playing"
        /\ state.frame = 0
        /\ \A f \in {"level", "width", "height", "high_score"} :
              state[f] = prev[f]
        /\ DOMAIN state.player = {"x", "y", "lives"}

\* a new game on a field of odd width, started as the second transition of a run
C11_Witness ==
    /\ op = "init"
    /\ steps = 2
    /\ prev.width % 2 = 1
    /\ prev.high_score = 250
    /\ prev.level = "Medium"
    /\ state.player.x = prev.width \div 2

----------------------------------------------------------------------------
(* Vocabulary of the properties of a tick.  What the steps of a tick see   *)
(* is written here from the input World w of the tick and its draws d, in  *)
(* the words of the specification, with none of the operators tick is      *)
(* computed with.                                                          *)

\* frames between two enemy moves and between two enemy spawns
MoveEvery(level) == IF level = "Easy" THEN 14 ELSE IF level = "Medium" THEN 8 ELSE 4
SpawnEvery(level) == IF level = "Easy" THEN 90 ELSE IF level = "Medium" THEN 55 ELSE 28

Points(kind) == IF kind = "Spacecraft" THEN 100 ELSE 150

\* the sub-list of seq at the indexes K, in the order of seq
Sub(seq, K) ==
    LET at(k) == CHOOSE i \in K : Cardinality({j \in K : j < i}) = k - 1
    IN  [k \in 1..Cardinality(K) |-> seq[at(k)]]

\* the bullets of w after their move: player bullets one row up, enemy
\* bullets one row down, those leaving rows 2..height-3 discarded
BulletsMoved(w) ==
    LET all == [i \in DOMAIN w.bullets |->
                  [x |-> w.bullets[i].x,
                   y |-> IF w.bullets[i].owner = "Player"
                         THEN w.bullets[i].y - 1 ELSE w.bullets[i].y + 1,
                   owner |-> w.bullets[i].owner]]
    IN  Sub(all, {i \in DOMAIN all : all[i].y >= 2 /\ all[i].y <= w.height - 3})

\* the enemies of w after their move, one row down on a move frame
EnemiesMoved(w) ==
    [i \in DOMAIN w.enemies |->
        [x |-> w.enemies[i].x,
         y |-> IF (w.frame + 1) % MoveEvery(w.level) = 0
               THEN w.enemies[i].y + 1 ELSE w.enemies[i].y,
         kind |-> w.enemies[i].kind]]

\* the enemy a spawn frame adds, as a list of one or no enemy
EnemiesSpawned(w, d) ==
    IF (w.frame + 1) % SpawnEvery(w.level) = 0
    THEN <<[x |-> d.spawn_x, y |-> 2,
            kind |-> IF d.spawn_spacecraft THEN "Spacecraft" ELSE "Octopus"]>>
    ELSE <<>>

\* the enemies the collision steps of the tick see
EnemiesFaced(w, d) == EnemiesMoved(w) \o EnemiesSpawned(w, d)

\* the bullets the enemies d.fire shoot in the tick
BulletsFired(w, d) ==
    LET en == EnemiesFaced(w, d)
    IN  Sub([i \in DOMAIN en |-> [x |-> en[i].x, y |-> en[i].y + 1, owner |-> "Enemy"]],
            d.fire)

\* the bullets the collision steps of the tick see
BulletsFaced(w, d) == BulletsMoved(w) \o BulletsFired(w, d)

\* the indexes of the player-owned bullets of a list
PlayerIdx(bullets) == {i \in DOMAIN bullets : bullets[i].owner = "Player"}

\* the box test of a bullet or flame cell (x, y) against enemy e
Overlaps(x, y, e) == x - e.x \in -1..1 /\ y - e.y \in {0, 1}

\* pairs <<bullet index, enemy index>> of a player bullet overlapping an enemy
BulletHits(bl, en) ==
    {p \in PlayerIdx(bl) \X DOMAIN en : Overlaps(bl[p[1]].x, bl[p[1]].y, en[p[2]])}

\* the bonus items of w after their move, one row down every 10th frame,
\* those leaving the rows up to height - 3 discarded
ItemsMoved(w) ==
    IF (w.frame + 1) % 10 = 0
    THEN LET all == [i \in DOMAIN w.bonus_items |->
                       [x |-> w.bonus_items[i].x,
                        y |-> w.bonus_items[i].y + 1,
                        kind |-> w.bonus_items[i].kind]]
         IN  Sub(all, {i \in DOMAIN all : all[i].y <= w.height - 3})
    ELSE w.bonus_items

\* bonus item b is within the player's catch box
InReach(b, w) == b.x - w.player.x \in -1..1 /\ b.y - w.player.y \in {0, 1}

\* no flame and no firebomb takes part in the tick on w
OnlyBullets(w) == w.flame_bullets = <<>> /\ w.firebombs = <<>>

----------------------------------------------------------------------------
(* C12 as stated: in one tick a player bullet whose post-move position is  *)
(* within one column of an enemy and on the enemy's row or the row below   *)
(* it removes that bullet and that enemy and adds 100 (Spacecraft) or 150  *)
(* (Octopus) to the score; a bullet two or more columns away from every    *)
(* enemy kills nothing and stays.                                          *)
C12_HitRemovesBoth ==
    op = "tick" =>
        LET bl == BulletsFaced(prev, drawn)
            en == EnemiesFaced(prev, drawn)
            hits == BulletHits(bl, en)
        IN  /\ \A p \in hits :
                  /\ \A i \in DOMAIN state.bullets : state.bullets[i] # bl[p[1]]
                  /\ \A j \in DOMAIN state.enemies :
                        ~(state.enemies[j].x = en[p[2]].x /\ state.enemies[j].y = en[p[2]].y)
                  /\ state.score >= prev.score + Points(en[p[2]].kind)
            /\ \A i \in PlayerIdx(bl) :
                  (\A j \in DOMAIN en : bl[i].x - en[j].x \notin -1..1) =>
                      \E k \in DOMAIN state.bullets : state.bullets[k] = bl[i]

(* C12, amended: the same for a player bullet and an enemy that overlap    *)
(* only each other (no other player bullet overlaps the enemy, the bullet  *)
(* overlaps no other enemy).  When every overlap of the tick is of that    *)
(* kind and no flame or firebomb is in flight, the score rises by exactly  *)
(* the sum of the points of the enemies hit, and the bullets and enemies   *)
(* not hit stay (enemies in rows below height - 3 leave the field).        *)
C12_LoneHitRemovesBoth ==
    op = "tick" =>
        LET bl == BulletsFaced(prev, drawn)
            en == EnemiesFaced(prev, drawn)
            hits == BulletHits(bl, en)
            lone == {p \in hits :
                        \A q \in hits : (q[1] = p[1] \/ q[2] = p[2]) => q = p}
            spent == {p[1] : p \in hits}
            dead == {p[2] : p \in hits}
        IN  /\ \A p \in lone :
                  /\ \A i \in DOMAIN state.bullets : state.bullets[i] # bl[p[1]]
                  /\ \A j \in DOMAIN state.enemies :
                        ~(state.enemies[j].x = en[p[2]].x /\ state.enemies[j].y = en[p[2]].y)
                  /\ state.score >= prev.score + Points(en[p[2]].kind)
            /\ \A i \in PlayerIdx(bl) :
                  (\A j \in DOMAIN en : bl[i].x - en[j].x \notin -1..1) =>
                      \E k \in DOMAIN state.bullets : state.bullets[k] = bl[i]
            /\ (lone = hits /\ OnlyBullets(prev)) =>
                  /\ state.score = prev.score
                        + 100 * Cardinality({j \in dead : en[j].kind = "Spacecraft"})
                        + 150 * Cardinality({j \in dead : en[j].kind = "Octopus"})
                  /\ state.enemies =
                        Sub(en, {j \in DOMAIN en \ dead : en[j].y <= prev.height - 3})
                  /\ Sub(state.bullets, PlayerIdx(state.bullets)) =
                        Sub(bl, PlayerIdx(bl) \ spent)

\* a tick in which a bullet hits an Octopus from the row below it for 150
\* points while a bullet two columns away from a Spacecraft flies on
C12_Witness ==
    /\ op = "tick"
    /\ Len(prev.enemies) = 2
    /\ prev.enemies[1].kind = "Octopus"
    /\ PlayerOwned(prev.bullets) = 2
    /\ prev.bullets[1].y = prev.enemies[1].y + 2
    /\ (prev.frame + 1) % MoveEvery(prev.level) # 0
    /\ state.score = prev.score + 150
    /\ Len(state.enemies) = 1
    /\ state.enemies[1].kind = "Spacecraft"
    /\ PlayerOwned(state.bullets) = 1
    /\ state.bullets[1].x = state.enemies[1].x - 2
    /\ state.bullets[1].y = state.enemies[1].y

----------------------------------------------------------------------------
\* the claims of the first n of the bullets bl on the enemies en: entry i
\* is the enemy claimed by bullet i, or 0.  Bullets claim in list order,
\* each the first enemy in list order it overlaps that no earlier bullet
\* has claimed.
RECURSIVE ClaimsUpTo(_, _, _)
ClaimsUpTo(bl, en, n) ==
    IF n = 0 THEN <<>>
    ELSE LET m == ClaimsUpTo(bl, en, n - 1)
             free == {j \in DOMAIN en :
                         /\ bl[n].owner = "Player"
                         /\ Overlaps(bl[n].x, bl[n].y, en[j])
                         /\ \A h \in 1..(n - 1) : m[h] # j}
         IN  Append(m, IF free = {} THEN 0
                       ELSE CHOOSE j \in free : \A k \in free : j <= k)

Claims(bl, en) == ClaimsUpTo(bl, en, Len(bl))

(* C13: in one tick the player bullets are processed in list order and     *)
(* each claims the first enemy, in enemy-list order, that passes the box   *)
(* test and is not claimed yet; an enemy is claimed by at most one bullet  *)
(* and a bullet claims at most one enemy, so as many enemies are killed as *)
(* bullets are removed, and a bullet that overlaps only claimed enemies    *)
(* stays in the World.  (Stated of ticks without flames and firebombs,     *)
(* which kill enemies of their own; enemies in rows below height - 3 leave *)
(* the field after the step.)                                              *)
C13_ClaimsInListOrder ==
    op = "tick" =>
        LET bl == BulletsFaced(prev, drawn)
            en == EnemiesFaced(prev, drawn)
            m == Claims(bl, en)
            spent == {i \in DOMAIN bl : m[i] # 0}
            dead == {m[i] : i \in spent}
            before == Cardinality(PlayerIdx(bl))
        IN  /\ Sub(state.bullets, PlayerIdx(state.bullets)) =
                   Sub(bl, PlayerIdx(bl) \ spent)
            /\ OnlyBullets(prev) =>
                  /\ state.enemies =
                        Sub(en, {j \in DOMAIN en \ dead : en[j].y <= prev.height - 3})
                  /\ Cardinality({j \in DOMAIN en : en[j].y <= prev.height - 3})
                        - Len(state.enemies)
                     = before - PlayerOwned(state.bullets)

\* two player bullets overlap the same single enemy: the first is removed
\* with the enemy, the second stays
C13_Witness ==
    /\ op = "tick"
    /\ Len(prev.enemies) = 1
    /\ PlayerOwned(prev.bullets) = 2
    /\ prev.flame_bullets = <<>>
    /\ prev.firebombs = <<>>
    /\ prev.bullets[1].x = prev.enemies[1].x - 1
    /\ prev.bullets[2].x = prev.enemies[1].x + 1
    /\ prev.bullets[1].y = prev.enemies[1].y + 1
    /\ prev.bullets[2].y = prev.enemies[1].y + 1
    /\ state.enemies = <<>>
    /\ state.bullets = <<[x |-> prev.bullets[2].x, y |-> prev.bullets[2].y - 1,
                          owner |-> "Player"]>>
    /\ state.score = prev.score + 100

----------------------------------------------------------------------------
(* C14: in each tick every bullet of the input World moves one row, a      *)
(* player bullet up and an enemy bullet down, in its column, and is        *)
(* discarded exactly when its new row is above row 2 or below row          *)
(* height - 3.  The bullets of the resulting World are the bullets so      *)
(* moved and kept, then the bullets fired by enemies in the tick, less     *)
(* those a later step of the tick removes for a hit: the player bullets    *)
(* that claim an enemy and the enemy bullets on the player's position.     *)
C14_BulletsMoveOneRow ==
    op = "tick" =>
        LET old == prev.bullets
            Row(b) == IF b.owner = "Player" THEN b.y - 1 ELSE b.y + 1
            moved == [i \in DOMAIN old |->
                        [x |-> old[i].x, y |-> Row(old[i]), owner |-> old[i].owner]]
            kept == {i \in DOMAIN old : ~(Row(old[i]) < 2 \/ Row(old[i]) > prev.height - 3)}
            bl == Sub(moved, kept) \o BulletsFired(prev, drawn)
            m == Claims(bl, EnemiesFaced(prev, drawn))
            hit == {i \in DOMAIN bl :
                      \/ m[i] # 0
                      \/ /\ bl[i].owner = "Enemy"
                         /\ bl[i].x = prev.player.x
                         /\ bl[i].y = prev.player.y}
        IN  state.bullets = Sub(bl, DOMAIN bl \ hit)

\* player bullets in rows 2 and 3 and enemy bullets in rows height - 3 and
\* height - 4: the first and the third are discarded, the others move on
C14_Witness ==
    /\ op = "tick"
    /\ Len(prev.bullets) = 4
    /\ prev.bullets[1].owner = "Player" /\ prev.bullets[1].y = 2
    /\ prev.bullets[2].owner = "Player" /\ prev.bullets[2].y = 3
    /\ prev.bullets[3].owner = "Enemy" /\ prev.bullets[3].y = prev.height - 3
    /\ prev.bullets[4].owner = "Enemy" /\ prev.bullets[4].y = prev.height - 4
    /\ state.bullets = <<[x |-> prev.bullets[2].x, y |-> 2, owner |-> "Player"],
                         [x |-> prev.bullets[4].x, y |-> prev.height - 3,
                          owner |-> "Enemy"]>>

----------------------------------------------------------------------------
(* C15: in each tick all enemies of the input World step down exactly one  *)
(* row if the new frame counter is a multiple of the level's move interval *)
(* (Easy 14, Medium 8, Hard 4), and no enemy moves otherwise; the column   *)
(* of an enemy never changes.  The enemies of the resulting World are      *)
(* among the enemies so placed and the enemy spawned in the tick, in       *)
(* order; without flames and firebombs they are exactly those no bullet    *)
(* claims and that stand in rows up to height - 3.                         *)
C15_EnemiesStepOnMoveFrames ==
    op = "tick" =>
        LET old == prev.enemies
            interval == CASE prev.level = "Easy" -> 14
                          [] prev.level = "Medium" -> 8
                          [] prev.level = "Hard" -> 4
            down == IF (prev.frame + 1) % interval = 0 THEN 1 ELSE 0
            placed == [i \in DOMAIN old |->
                         [x |-> old[i].x, y |-> old[i].y + down, kind |-> old[i].kind]]
            en == placed \o EnemiesSpawned(prev, drawn)
            m == Claims(BulletsFaced(prev, drawn), en)
            dead == {m[i] : i \in DOMAIN m}
        IN  /\ \E K \in SUBSET DOMAIN en : state.enemies = Sub(en, K)
            /\ OnlyBullets(prev) =>
                  state.enemies =
                      Sub(en, {j \in DOMAIN en : j \notin dead /\ en[j].y <= prev.height - 3})

\* a tick to a frame that is a multiple of 8 on level Medium: both enemies
\* step down one row in their columns
C15_Witness ==
    /\ op = "tick"
    /\ prev.level = "Medium"
    /\ state.frame % 8 = 0
    /\ Len(prev.enemies) = 2
    /\ Len(state.enemies) = 2
    /\ \A i \in 1..2 :
          /\ state.enemies[i].x = prev.enemies[i].x
          /\ state.enemies[i].y = prev.enemies[i].y + 1
          /\ state.enemies[i].kind = prev.enemies[i].kind

----------------------------------------------------------------------------
(* C16: a tick spawns exactly one enemy, in row 2 and a column of          *)
(* 1..width-2, if the new frame counter is a multiple of the level's spawn *)
(* rate (Easy 90, Medium 55, Hard 28) and none otherwise; it spawns        *)
(* exactly one bonus item, in row 2, if the new frame counter is a         *)
(* multiple of 150 and none otherwise; no other transition creates an      *)
(* enemy or a bonus item.  The spawned enemy and item are the last of      *)
(* their lists; as every enemy and item, they are in the resulting World   *)
(* unless a step of the same tick removes them.                            *)
C16_SpawnFrames ==
    /\ op = "tick" =>
          LET frame == prev.frame + 1
              rate == CASE prev.level = "Easy" -> 90
                        [] prev.level = "Medium" -> 55
                        [] prev.level = "Hard" -> 28
              born == IF frame % rate = 0
                      THEN <<[x |-> drawn.spawn_x, y |-> 2,
                              kind |-> IF drawn.spawn_spacecraft
                                       THEN "Spacecraft" ELSE "Octopus"]>>
                      ELSE <<>>
              en == EnemiesMoved(prev) \o born
              m == Claims(BulletsFaced(prev, drawn), en)
              dead == {m[i] : i \in DOMAIN m}
              Gift(k) == IF frame % 150 = 0
                         THEN <<[x |-> drawn.bonus_x, y |-> 2, kind |-> k]>>
                         ELSE <<>>
          IN  /\ frame % rate = 0 => drawn.spawn_x \in 1..(prev.width - 2)
              /\ \E K \in SUBSET DOMAIN en : state.enemies = Sub(en, K)
              /\ OnlyBullets(prev) =>
                    state.enemies =
                        Sub(en, {j \in DOMAIN en :
                                    j \notin dead /\ en[j].y <= prev.height - 3})
              /\ \E k \in {"SpreadShot", "ExtraLife", "RapidFire", "FlameBurst",
                           "Firebomb"} :
                    LET items == ItemsMoved(prev) \o Gift(k)
                    IN  state.bonus_items =
                            Sub(items, {i \in DOMAIN items : ~InReach(items[i], prev)})
    /\ op \in InputOps =>
          /\ state.enemies = prev.enemies
          /\ state.bonus_items = prev.bonus_items
    /\ op = "init" => state.enemies = <<>> /\ state.bonus_items = <<>>

\* the tick to frame 450 on level Easy: an Octopus and a Firebomb item are
\* spawned in row 2, after the enemies and items already there (the items
\* in lower rows)
C16_Witness ==
    /\ op = "tick"
    /\ prev.level = "Easy"
    /\ state.frame = 450
    /\ prev.enemies # <<>>
    /\ prev.bonus_items # <<>>
    /\ Len(state.enemies) = Len(prev.enemies) + 1
    /\ state.enemies[Len(state.enemies)] =
          [x |-> prev.width - 2, y |-> 2, kind |-> "Octopus"]
    /\ \A i \in DOMAIN prev.bonus_items : prev.bonus_items[i].y > 2
    /\ state.bonus_items # <<>>
    /\ state.bonus_items[Len(state.bonus_items)].y = 2
    /\ state.bonus_items[Len(state.bonus_items)].kind = "Firebomb"

----------------------------------------------------------------------------
(* C17: after every tick no enemy stands in row height - 2 or below: every *)
(* enemy of the resulting World has row <= height - 3.                     *)
C17_NoEnemyBelowField ==
    op = "tick" =>
        \A j \in DOMAIN state.enemies : state.enemies[j].y <= state.height - 3

\* an enemy in row height - 3 steps down to row height - 2 and is removed,
\* the enemy above it stays
C17_Witness ==
    /\ op = "tick"
    /\ Len(prev.enemies) = 2
    /\ prev.enemies[1].y = prev.height - 3
    /\ state.frame % MoveEvery(prev.level) = 0
    /\ Len(state.enemies) = 1
    /\ state.enemies[1].x = prev.enemies[2].x
    /\ state.enemies[1].y = prev.enemies[2].y + 1

----------------------------------------------------------------------------
(* Vocabulary of the hits on the player and of the lives.                  *)

\* the cells of the flames of w after their move (one row up, vx columns
\* aside, in units of 1/10000 cell), those leaving columns 1..width-2 or
\* rows 2..height-3 discarded; the cell is the rounded position
FlameCells(w) ==
    LET fl == w.flame_bullets
        X(i) == fl[i].x + fl[i].vx
        Y(i) == fl[i].y - 10000
        cells == [i \in DOMAIN fl |->
                    [x |-> (X(i) + 5000) \div 10000,
                     y |-> (Y(i) + 5000) \div 10000,
                     owner |-> "Player"]]
    IN  Sub(cells, {i \in DOMAIN fl :
                       /\ X(i) >= 10000 /\ X(i) <= (w.width - 2) * 10000
                       /\ Y(i) >= 20000 /\ Y(i) <= (w.height - 3) * 10000})

\* the enemies of list en that none of the bullets or cells bl claims
Unclaimed(bl, en) ==
    LET m == Claims(bl, en)
    IN  Sub(en, {j \in DOMAIN en : \A i \in DOMAIN bl : m[i] # j})

\* the enemies left by the bullet and the flame collision steps of the tick
EnemiesLeft(w, d) ==
    Unclaimed(FlameCells(w), Unclaimed(BulletsFaced(w, d), EnemiesFaced(w, d)))

\* the enemy bullets that are on the player's position once the bullets
\* have moved and the enemies have fired
BulletsLanded(w, d) ==
    LET bl == BulletsFaced(w, d)
    IN  {i \in DOMAIN bl : bl[i] = [x |-> w.player.x, y |-> w.player.y, owner |-> "Enemy"]}

\* an enemy left by the collision steps in the player's row or below
Contact(w, d) ==
    \E j \in DOMAIN EnemiesLeft(w, d) : EnemiesLeft(w, d)[j].y >= w.player.y

PlayerIsHit(w, d) == BulletsLanded(w, d) # {} \/ Contact(w, d)

\* the bonus items the catch step of the tick sees
ItemsFaced(w, d) ==
    ItemsMoved(w) \o
    (IF (w.frame + 1) % 150 = 0
     THEN <<[x |-> d.bonus_x, y |-> 2,
             kind |-> CASE d.bonus_kind = 0 -> "SpreadShot"
                        [] d.bonus_kind = 1 -> "ExtraLife"
                        [] d.bonus_kind = 2 -> "RapidFire"
                        [] d.bonus_kind = 3 -> "FlameBurst"
                        [] OTHER -> "Firebomb"]>>
     ELSE <<>>)

\* the number of ExtraLife items caught in the tick
ExtraLives(w, d) ==
    LET items == ItemsFaced(w, d)
    IN  Cardinality({i \in DOMAIN items :
                        items[i].kind = "ExtraLife" /\ InReach(items[i], w)})

----------------------------------------------------------------------------
(* C18: in one tick the player is hit iff an enemy bullet is on the        *)
(* player's position after the bullets have moved and the enemies have     *)
(* fired, or an enemy left by the bullet and flame collision steps stands  *)
(* in the player's row or below.  Without an ExtraLife pickup a tick with  *)
(* a hit lowers the lives by exactly one (not below 0) however many        *)
(* bullets and enemies hit, a tick without a hit leaves the lives, and no  *)
(* enemy bullet on the player's position remains in the World.             *)
C18_HitCostsOneLife ==
    op = "tick" =>
        /\ ExtraLives(prev, drawn) = 0 =>
              IF PlayerIsHit(prev, drawn)
              THEN state.player.lives =
                      (IF prev.player.lives = 0 THEN 0 ELSE prev.player.lives - 1)
              ELSE state.player.lives = prev.player.lives
        /\ \A i \in DOMAIN state.bullets :
              state.bullets[i] #
                  [x |-> prev.player.x, y |-> prev.player.y, owner |-> "Enemy"]

\* an enemy bullet lands on the player while two enemies stand in the
\* player's row or below: 2 lives become 1, the bullet is gone
C18_Witness ==
    /\ op = "tick"
    /\ prev.player.lives = 2
    /\ state.player.lives = 1
    /\ state.bonus_items = prev.bonus_items
    /\ \E i \in DOMAIN prev.bullets :
          prev.bullets[i] =
              [x |-> prev.player.x, y |-> prev.player.y - 1, owner |-> "Enemy"]
    /\ Len(prev.enemies) = 2
    /\ \A j \in 1..2 : prev.enemies[j].y >= prev.player.y - 1
    /\ state.frame % MoveEvery(prev.level) = 0
    /\ state.bullets = <<>>

----------------------------------------------------------------------------
(* C19: after every tick the lives are min(5, max(0, lives - (1 if hit     *)
(* else 0)) + number of ExtraLife items caught in the tick), and the       *)
(* status is GameOver if these lives are 0 and Playing otherwise: a hit at *)
(* 1 life gives 0 lives and GameOver, a hit at 2 lives gives 1 life and    *)
(* Playing.                                                                *)
C19_LivesAndStatus ==
    op = "tick" =>
        LET cost == IF PlayerIsHit(prev, drawn) THEN 1 ELSE 0
            rest == IF prev.player.lives - cost >= 0
                    THEN prev.player.lives - cost ELSE 0
            sum == rest + ExtraLives(prev, drawn)
            lives == IF sum <= 5 THEN sum ELSE 5
        IN  /\ state.player.lives = lives
            /\ state.status = (IF lives = 0 THEN "GameOver" ELSE "Playing")

\* a tick at 5 lives with a hit and an ExtraLife caught: 5 lives remain and
\* the game goes on
C19_Witness ==
    /\ op = "tick"
    /\ prev.player.lives = 5
    /\ \E j \in DOMAIN prev.enemies : prev.enemies[j].y >= prev.player.y
    /\ \E i \in DOMAIN prev.bonus_items :
          /\ prev.bonus_items[i].kind = "ExtraLife"
          /\ prev.bonus_items[i].x = prev.player.x
          /\ prev.bonus_items[i].y = prev.player.y - 1
    /\ state.frame % 10 = 0
    /\ state.bonus_items = <<>>
    /\ state.player.lives = 5
    /\ state.status = "Playing"

----------------------------------------------------------------------------
----------------------------------------------------------------------------
(* C21: GameOver is terminal.  A move, a shot or a tick applied to a World *)
(* with status GameOver results in a World with status GameOver; only      *)
(* init_state makes a Playing World again.                                 *)
C21_GameOverIsTerminal ==
    (op \in InputOps \cup {"tick"} /\ prev.status = "GameOver") =>
        state.status = "GameOver"

----------------------------------------------------------------------------
(* Vocabulary of the firebombs and of the score.                           *)

\* the indexes of the enemies of list en that a bullet or cell of bl claims
Claimed(bl, en) ==
    LET m == Claims(bl, en)
    IN  {j \in DOMAIN en : \E i \in DOMAIN bl : m[i] = j}

\* the enemies the firebomb step of the tick sees: those left by the
\* collision steps that stand in rows up to height - 3
EnemiesInField(w, d) ==
    LET en == EnemiesLeft(w, d)
    IN  Sub(en, {j \in DOMAIN en : en[j].y <= w.height - 3})

\* the firebombs of w after their update: the fuse one less, not below 0,
\* and one row up when the new frame counter is a multiple of 4
BombsMoved(w) ==
    [i \in DOMAIN w.firebombs |->
        [x |-> w.firebombs[i].x,
         y |-> IF (w.frame + 1) % 4 = 0 THEN w.firebombs[i].y - 1
               ELSE w.firebombs[i].y,
         fuse |-> IF w.firebombs[i].fuse = 0 THEN 0 ELSE w.firebombs[i].fuse - 1]]

\* enemy e is within squared distance r2 of point b
Within(e, b, r2) == (e.x - b.x) * (e.x - b.x) + (e.y - b.y) * (e.y - b.y) <= r2

\* the indexes of the firebombs that detonate in the tick
Detonating(w, d) ==
    LET bombs == BombsMoved(w)
        en == EnemiesInField(w, d)
    IN  {i \in DOMAIN bombs :
            \/ \E j \in DOMAIN en : Within(en[j], bombs[i], 4)
            \/ bombs[i].fuse = 0
            \/ bombs[i].y <= 2}

\* the indexes of the enemies within squared distance 16 of a detonation
Blasted(w, d) ==
    LET bombs == BombsMoved(w)
        en == EnemiesInField(w, d)
    IN  {j \in DOMAIN en : \E i \in Detonating(w, d) : Within(en[j], bombs[i], 16)}

\* the sum of the point values of the enemies of en at the indexes J
PointsOf(en, J) ==
    100 * Cardinality({j \in J : en[j].kind = "Spacecraft"})
    + 150 * Cardinality({j \in J : en[j].kind = "Octopus"})

\* the points of the enemies killed in the tick by standard bullets, by
\* flames and by firebomb explosions
ScoreGain(w, d) ==
    LET en == EnemiesFaced(w, d)
        bl == BulletsFaced(w, d)
        en6 == Unclaimed(bl, en)
    IN  PointsOf(en, Claimed(bl, en))
        + PointsOf(en6, Claimed(FlameCells(w), en6))
        + PointsOf(EnemiesInField(w, d), Blasted(w, d))

----------------------------------------------------------------------------
(* C22: after every tick the score is the score before plus the point      *)
(* values of all enemies killed in the tick by standard bullets, flames    *)
(* and firebomb explosions, and the high score is the maximum of the high  *)
(* score before and the new score; the moves and shots change neither.     *)
(* Hence score and high score never decrease in a run, and high score >=   *)
(* score in every World.                                                   *)
C22_ScoreAndHighScore ==
    /\ op = "tick" =>
          /\ state.score = prev.score + ScoreGain(prev, drawn)
          /\ state.high_score =
                (IF prev.high_score >= state.score THEN prev.high_score
                 ELSE state.score)
    /\ op \in InputOps \cup {"tick"} =>
          /\ state.score >= prev.score
          /\ state.high_score >= prev.high_score
    /\ op \in InputOps =>
          state.score = prev.score /\ state.high_score = prev.high_score
    /\ state.high_score >= state.score

\* flames kill an Octopus and a Spacecraft in one tick: the score rises by
\* 250 past the high score, which follows it
C22_Witness ==
    /\ op = "tick"
    /\ prev.flame_bullets # <<>>
    /\ Len(prev.enemies) = 2
    /\ state.enemies = <<>>
    /\ state.score = prev.score + 250
    /\ prev.high_score < state.score
    /\ prev.high_score > prev.score
    /\ state.high_score = state.score

----------------------------------------------------------------------------
(* C25: a tick never changes the player's position, the level or the width *)
(* and height of the play-field: for every input World and every outcome   *)
(* of the draws these fields of the resulting World equal those of the     *)
(* input World.                                                            *)
C25_TickKeepsPlayerPlaceAndField ==
    op = "tick" =>
        /\ state.player.x = prev.player.x
        /\ state.player.y = prev.player.y
        /\ state.level = prev.level
        /\ state.width = prev.width
        /\ state.height = prev.height

\* a tick that costs a life of a player standing off the centre column, on
\* a level other than the first
C25_Witness ==
    /\ op = "tick"
    /\ steps = 2
    /\ prev.player.x # prev.width \div 2
    /\ prev.level = "Hard"
    /\ state.player.lives < prev.player.lives
    /\ state.player.x = prev.player.x
    /\ state.level = "Hard"

----------------------------------------------------------------------------
\* the indexes of the weapon items (all kinds but ExtraLife) caught in the tick
WeaponsCaught(w, d) ==
    LET items == ItemsFaced(w, d)
    IN  {i \in DOMAIN items : items[i].kind # "ExtraLife" /\ InReach(items[i], w)}

\* power-up pu after one tick and after ten ticks in which nothing is
\* caught, by the countdown step of tick
AfterTick(pu) == tick_power_up([active_power_up |-> pu])

AfterTenTicks(pu) ==
    AfterTick(AfterTick(AfterTick(AfterTick(AfterTick(
        AfterTick(AfterTick(AfterTick(AfterTick(AfterTick(pu))))))))))

\* power-up pu after n such ticks
RECURSIVE AfterTicks(_, _)
AfterTicks(pu, n) ==
    IF n = 0 \/ pu = <<>> THEN pu
    ELSE IF n >= 10 THEN AfterTicks(AfterTenTicks(pu), n - 10)
    ELSE AfterTicks(AfterTick(pu), n - 1)

(* C26: a weapon power-up caught in a tick is stored with 300 remaining    *)
(* frames in the World after that tick.  A tick in which no weapon item is *)
(* caught lowers the counter of the active power-up by one while it is     *)
(* above 1 and clears the power-up when it is 1.  So a power-up just       *)
(* caught is still active after 299 such ticks, with counter 1, and is     *)
(* None after the 300th.                                                   *)
C26_PowerUpCountdown ==
    op = "tick" =>
        LET items == ItemsFaced(prev, drawn)
            got == WeaponsCaught(prev, drawn)
            old == prev.active_power_up
            new == state.active_power_up
        IN  IF got # {}
            THEN /\ new # <<>>
                 /\ new[2] = 300
                 /\ \E i \in got : new[1] = items[i].kind
                 /\ AfterTicks(new, 299) = <<new[1], 1>>
                 /\ AfterTicks(new, 300) = <<>>
            ELSE IF old = <<>> THEN new = <<>>
            ELSE IF old[2] > 1 THEN new = <<old[1], old[2] - 1>>
            ELSE new = <<>>

\* the tick after RapidFire's last frame but one catches a SpreadShot item:
\* SpreadShot is stored with 300 frames
C26_Witness ==
    /\ op = "tick"
    /\ prev.active_power_up = <<"RapidFire", 2>>
    /\ \E i \in DOMAIN prev.bonus_items :
          /\ prev.bonus_items[i].kind = "SpreadShot"
          /\ prev.bonus_items[i].y = prev.player.y
    /\ state.active_power_up = <<"SpreadShot", 300>>

----------------------------------------------------------------------------
(* C27: a tick removes every bonus item that, after the bonus move and     *)
(* spawn of the tick, is within one column of the player and in the        *)
(* player's row or the row below it, and keeps the others.  Catching       *)
(* SpreadShot, RapidFire, FlameBurst or Firebomb sets the active power-up  *)
(* to that kind with 300 frames whatever was active, the last caught item  *)
(* in list order winning; catching ExtraLife adds one life and leaves the  *)
(* active power-up alone.                                                  *)
C27_CatchBonusItems ==
    op = "tick" =>
        LET items == ItemsFaced(prev, drawn)
            got == {i \in DOMAIN items :
                       /\ items[i].x - prev.player.x \in {-1, 0, 1}
                       /\ items[i].y - prev.player.y \in {0, 1}}
            weapons == {i \in got : items[i].kind # "ExtraLife"}
            lives == {i \in got : items[i].kind = "ExtraLife"}
            old == prev.active_power_up
            hit == IF PlayerIsHit(prev, drawn) /\ prev.player.lives > 0 THEN 1 ELSE 0
            sum == prev.player.lives - hit + Cardinality(lives)
        IN  /\ state.bonus_items = Sub(items, DOMAIN items \ got)
            /\ weapons # {} =>
                  \E i \in weapons :
                      /\ \A k \in weapons : k <= i
                      /\ state.active_power_up = <<items[i].kind, 300>>
            /\ weapons = {} =>
                  state.active_power_up =
                      (IF old # <<>> /\ old[2] > 1 THEN <<old[1], old[2] - 1>> ELSE <<>>)
            /\ state.player.lives = (IF sum <= 5 THEN sum ELSE 5)

\* FlameBurst, ExtraLife and Firebomb items are caught in one tick while
\* SpreadShot is active: Firebomb, the last of them, becomes active with
\* 300 frames, a life is added, the item two columns away stays
C27_Witness ==
    /\ op = "tick"
    /\ Len(prev.bonus_items) = 4
    /\ prev.bonus_items[1].kind = "FlameBurst"
    /\ prev.bonus_items[2].kind = "ExtraLife"
    /\ prev.bonus_items[3].kind = "Firebomb"
    /\ prev.active_power_up # <<>>
    /\ prev.active_power_up[1] = "SpreadShot"
    /\ prev.active_power_up[2] > 1
    /\ state.active_power_up = <<"Firebomb", 300>>
    /\ state.player.lives = prev.player.lives + 1
    /\ Len(state.bonus_items) = 1
    /\ state.bonus_items[1].kind = "RapidFire"

----------------------------------------------------------------------------
\* the explosions of w still on display after the tick: those with more
\* than one frame left, with one frame less
ExplosionsLeft(w) ==
    LET old == w.explosions
        live == Sub(old, {i \in DOMAIN old : old[i].frames > 1})
    IN  [i \in DOMAIN live |->
            [x |-> live[i].x, y |-> live[i].y, frames |-> live[i].frames - 1]]

\* one explosion with 10 frames at the place of each firebomb of bombs at
\* the indexes D, in list order
ExplosionsAt(bombs, D) ==
    LET det == Sub(bombs, D)
    IN  [i \in DOMAIN det |-> [x |-> det[i].x, y |-> det[i].y, frames |-> 10]]

(* C28: in a tick the fuse of every firebomb goes down by one (not below   *)
(* 0) and its row goes down by one only when the new frame counter is a    *)
(* multiple of 4.  After that update a firebomb detonates iff an enemy     *)
(* left by the bullet, flame and boundary steps is within squared distance *)
(* 4 of it, or its fuse is 0, or its row is at most 2.  The firebombs that *)
(* detonate leave the flight list and each adds one Explosion with 10      *)
(* frames at its place, after the explosions still on display.  So every   *)
(* firebomb of a World after a tick has fuse >= 1 and row >= 3, a fuse     *)
(* never exceeds 90 and a firebomb in flight loses one unit of fuse per    *)
(* tick: none survives more than 90 ticks.                                 *)
C28_FirebombFlight ==
    /\ \A i \in DOMAIN state.firebombs : state.firebombs[i].fuse \in 0..90
    /\ op = "tick" =>
          LET bombs == BombsMoved(prev)
              D == Detonating(prev, drawn)
              kept == DOMAIN bombs \ D
          IN  /\ state.firebombs = Sub(bombs, kept)
              /\ state.explosions = ExplosionsLeft(prev) \o ExplosionsAt(bombs, D)
              /\ \A i \in DOMAIN state.firebombs :
                    /\ state.firebombs[i].fuse >= 1
                    /\ state.firebombs[i].y >= 3
                    /\ \E k \in kept :
                          /\ state.firebombs[i].x = prev.firebombs[k].x
                          /\ state.firebombs[i].fuse = prev.firebombs[k].fuse - 1
                          /\ state.firebombs[i].fuse <= 89

\* of two firebombs with no enemy near, the first steps into row 2 and the
\* second runs out of fuse: both detonate; the explosion with one frame
\* left goes, the other is ticked down, and the two detonations follow
\* with 10 frames each.  On a frame that moves no firebomb the first one
\* flies on with one unit of fuse less.
C28_Witness ==
    /\ op = "tick"
    /\ Len(prev.firebombs) = 2
    /\ prev.firebombs[1].y = 3
    /\ prev.firebombs[1].fuse > 1
    /\ prev.firebombs[2].fuse = 1
    /\ Len(prev.explosions) = 2
    /\ prev.enemies = <<>>
    /\ IF state.frame % 4 = 0
       THEN /\ state.firebombs = <<>>
            /\ Len(state.explosions) = 3
            /\ state.explosions[1].frames = 1
            /\ state.explosions[2] = [x |-> prev.firebombs[1].x, y |-> 2, frames |-> 10]
            /\ state.explosions[3] = [x |-> prev.firebombs[2].x,
                                      y |-> prev.firebombs[2].y - 1, frames |-> 10]
       ELSE /\ state.firebombs = <<[x |-> prev.firebombs[1].x, y |-> 3,
                                    fuse |-> prev.firebombs[1].fuse - 1]>>
            /\ Len(state.explosions) = 2
            /\ state.explosions[2] = [x |-> prev.firebombs[2].x,
                                      y |-> prev.firebombs[2].y, frames |-> 10]

----------------------------------------------------------------------------
(* C29: in a tick, every enemy left by the bullet, flame and boundary      *)
(* steps that is within squared distance 16 of the place of a detonating   *)
(* firebomb is removed and adds its point value to the score once, also    *)
(* when it is within range of two detonations; the enemies farther than    *)
(* that from every detonation stay, in their order.                        *)
C29_ExplosionKills ==
    op = "tick" =>
        LET en == EnemiesInField(prev, drawn)
            bombs == BombsMoved(prev)
            D == Detonating(prev, drawn)
            near == {j \in DOMAIN en : \E i \in D : Within(en[j], bombs[i], 16)}
            far == {j \in DOMAIN en : \A i \in D : ~Within(en[j], bombs[i], 16)}
            before == LET faced == EnemiesFaced(prev, drawn)
                          bl == BulletsFaced(prev, drawn)
                          en6 == Unclaimed(bl, faced)
                      IN  PointsOf(faced, Claimed(bl, faced))
                          + PointsOf(en6, Claimed(FlameCells(prev), en6))
        IN  /\ state.enemies = Sub(en, far)
            /\ Len(state.enemies) = Len(en) - Cardinality(near)
            /\ state.score = prev.score + before
                  + 100 * Cardinality({j \in near : en[j].kind = "Spacecraft"})
                  + 150 * Cardinality({j \in near : en[j].kind = "Octopus"})

\* two firebombs detonate in one tick; an Octopus within range of both and
\* a Spacecraft out of trigger range but within kill range are removed and
\* counted once each, a Spacecraft farther away stays
C29_Witness ==
    /\ op = "tick"
    /\ Len(prev.enemies) = 3
    /\ Len(prev.firebombs) = 2
    /\ LET en == EnemiesInField(prev, drawn)
           bombs == BombsMoved(prev)
       IN  /\ Len(en) >= 3
           /\ Detonating(prev, drawn) = {1, 2}
           /\ Within(en[1], bombs[1], 16) /\ Within(en[1], bombs[2], 16)
           /\ ~Within(en[2], bombs[1], 4) /\ ~Within(en[2], bombs[2], 4)
           /\ Within(en[2], bombs[1], 16)
           /\ ~Within(en[3], bombs[1], 16) /\ ~Within(en[3], bombs[2], 16)
           /\ state.enemies = Sub(en, DOMAIN en \ {1, 2})
    /\ state.firebombs = <<>>
    /\ state.score = prev.score + 250

----------------------------------------------------------------------------
(* C23: every transition is total: from every World made by init with      *)
(* positive width and height, every call of move_left, move_right, shoot   *)
(* and tick completes and returns a World.                                 *)
C23_TransitionsAreTotal == op # "panic"

----------------------------------------------------------------------------
\* World s holds the bonus items a tick with draws d leaves of those of w:
\* every item one row down iff the new frame counter is a multiple of 10
\* and otherwise where it was, an item whose new row reaches height - 2
\* discarded, the item spawned in the tick appended, and the items within
\* the player's catch box taken out
ItemsFell(w, d, s) ==
    LET old == w.bonus_items
        step == s.frame % 10 = 0
        fallen == [i \in DOMAIN old |->
                      [x |-> old[i].x,
                       y |-> IF step THEN old[i].y + 1 ELSE old[i].y,
                       kind |-> old[i].kind]]
        missed == {i \in DOMAIN old : step /\ fallen[i].y >= w.height - 2}
        left == Sub(fallen, DOMAIN old \ missed)
        faced == ItemsFaced(w, d)
        spawned == SubSeq(faced, Len(ItemsMoved(w)) + 1, Len(faced))
        items == left \o spawned
    IN  /\ Len(spawned) = (IF s.frame % 150 = 0 THEN 1 ELSE 0)
        /\ s.bonus_items = Sub(items, {i \in DOMAIN items : ~InReach(items[i], w)})

(* C30 as stated: bonus items step down exactly one row in a tick iff the  *)
(* new frame counter is a multiple of 10 and otherwise keep their          *)
(* position; an item whose new row reaches height - 2 is discarded, so     *)
(* every bonus item of a World after a tick is in a row of [2, height-3],  *)
(* and an uncaught item is eventually removed.                             *)
C30_ItemsFallAndLeave ==
    /\ [](op = "tick" =>
            /\ ItemsFell(prev, drawn, state)
            /\ \A i \in DOMAIN state.bonus_items :
                  state.bonus_items[i].y \in 2..(state.height - 3))
    /\ (state.bonus_items # <<>>) ~> (state.bonus_items = <<>>)

(* C30, amended: as above, the rows of the bonus items of a World after a  *)
(* tick being within [2, height-3] on a field of height >= 5.  (On a field *)
(* of 4 rows an item is spawned in row 2 = height - 2 and stays there      *)
(* until the next frame that is a multiple of 10.)                         *)
C30_ItemsFallAndLeaveTallField ==
    /\ [](op = "tick" =>
            /\ ItemsFell(prev, drawn, state)
            /\ state.height >= 5 =>
                  \A i \in DOMAIN state.bonus_items :
                      state.bonus_items[i].y \in 2..(state.height - 3))
    /\ (state.bonus_items # <<>>) ~> (state.bonus_items = <<>>)

\* an item that nobody caught stood in row height - 3 and is gone after the
\* tick of a frame that is a multiple of 10
C30_Witness ==
    /\ op = "tick"
    /\ prev.height >= 5
    /\ Len(prev.bonus_items) = 1
    /\ prev.bonus_items[1].y = prev.height - 3
    /\ ~InReach([prev.bonus_items[1] EXCEPT !.y = @ + 1], prev)
    /\ state.frame % 10 = 0
    /\ state.bonus_items = <<>>

----------------------------------------------------------------------------
(* C24 as stated: in every iteration of game_loop at most one of the input *)
(* transitions move_left, move_right and shoot is applied to the World,    *)
(* and then exactly one tick is applied before the World is rendered.      *)
C24_OneInputThenOneTick ==
    op = "frame" =>
        LET done == loop.applied
        IN  /\ Cardinality({i \in DOMAIN done : done[i] \in InputOps}) <= 1
            /\ Cardinality({i \in DOMAIN done : done[i] = "tick"}) = 1
            /\ done[Len(done)] = "tick"
            /\ state.frame = prev.frame + 1

(* C24, amended: in every iteration of game_loop that reaches the          *)
(* rendering, while the status is Playing at most one of move_left and     *)
(* move_right and then at most one shoot are applied to the World (a move  *)
(* and a shoot may both be applied in one iteration), and then exactly one *)
(* tick; when the status is GameOver no transition is applied and the      *)
(* World is rendered as it was.                                            *)
C24_MoveAndShootThenTickWhilePlaying ==
    op = "frame" =>
        IF prev.status = "Playing"
        THEN /\ \E m \in {<<>>, <<"move_left">>, <<"move_right">>},
                   s \in {<<>>, <<"shoot">>} :
                    loop.applied = m \o s \o <<"tick">>
             /\ state.frame = prev.frame + 1
        ELSE /\ loop.applied = <<>>
             /\ state = prev

\* Left and Space were pressed before the drain of one iteration: the
\* player is moved, the shot is fired from the new column and the tick
\* moves the bullet, all before the World is rendered.  The game that ends
\* in the first iteration of the run gets no transition in the second.
C24_Witness ==
    /\ op = "frame"
    /\ loop.applied = <<"move_left", "shoot", "tick">>
    /\ state.player.x = prev.player.x - 2
    /\ prev.bullets = <<>>
    /\ state.bullets = <<[x |-> state.player.x, y |-> state.player.y - 2,
                          owner |-> "Player"]>>
    /\ state.frame = prev.frame + 1

----------------------------------------------------------------------------
\* the flames of w after their move that are still in the field, in list
\* order: the flames whose cells FlameCells lists
FlamesFlying(w) ==
    LET fl == w.flame_bullets
        moved == [i \in DOMAIN fl |->
                     [x |-> fl[i].x + fl[i].vx, y |-> fl[i].y - 10000, vx |-> fl[i].vx]]
    IN  Sub(moved, {i \in DOMAIN fl :
                       /\ moved[i].x >= 10000 /\ moved[i].x <= (w.width - 2) * 10000
                       /\ moved[i].y >= 20000 /\ moved[i].y <= (w.height - 3) * 10000})

\* the sum of the point values of all enemies of list en
PointsOfAll(en) == PointsOf(en, DOMAIN en)

(* C31: in a tick the flames are matched after the standard bullets,       *)
(* against the enemies the bullets have left: an enemy killed by a         *)
(* standard bullet consumes no flame, so a flame that overlaps only such   *)
(* enemies flies on.  The flames claim in list order, each the first enemy *)
(* it overlaps that no earlier flame has claimed, so as many flames are    *)
(* consumed as enemies are burnt.  Over the whole tick every enemy adds    *)
(* its point value to the score at most once: the score gained is the      *)
(* value of the enemies the tick saw, less the value of those it leaves in *)
(* the World and of those that left the field at the bottom.               *)
C31_FlamesAfterBullets ==
    op = "tick" =>
        LET en == EnemiesFaced(prev, drawn)
            bl == BulletsFaced(prev, drawn)
            en6 == Unclaimed(bl, en)
            cells == FlameCells(prev)
            flames == FlamesFlying(prev)
            m == Claims(cells, en6)
            spent == {i \in DOMAIN cells : m[i] # 0}
            burnt == {m[i] : i \in spent}
            left == EnemiesLeft(prev, drawn)
            purged == Sub(left, {j \in DOMAIN left : left[j].y > prev.height - 3})
        IN  /\ Len(flames) = Len(cells)
            /\ state.flame_bullets = Sub(flames, DOMAIN flames \ spent)
            /\ Len(flames) - Len(state.flame_bullets) = Cardinality(burnt)
            /\ \A i \in DOMAIN cells :
                  (\A j \in DOMAIN en6 : ~Overlaps(cells[i].x, cells[i].y, en6[j]))
                      => i \notin spent
            /\ Len(left) = Len(en) - Cardinality(Claimed(bl, en)) - Cardinality(burnt)
            /\ state.score - prev.score =
                  PointsOfAll(en) - PointsOfAll(state.enemies) - PointsOfAll(purged)

\* a standard bullet and the flames behind it reach the same enemy in one
\* tick: the bullet kills it, the score rises by its value once, and all
\* four flames fly on
C31_Witness ==
    /\ op = "tick"
    /\ Len(prev.enemies) = 1
    /\ Len(prev.bullets) = 1
    /\ Len(prev.flame_bullets) = 4
    /\ LET en == EnemiesFaced(prev, drawn)
           bl == BulletsFaced(prev, drawn)
           cells == FlameCells(prev)
       IN  /\ Len(en) = 1
           /\ Claimed(bl, en) = {1}
           /\ \E i \in DOMAIN cells : Overlaps(cells[i].x, cells[i].y, en[1])
    /\ state.enemies = <<>>
    /\ state.bullets = <<>>
    /\ Len(state.flame_bullets) = 4
    /\ state.score = prev.score + 100

----------------------------------------------------------------------------
(* C32: at the start of every iteration game_loop drains the channel       *)
(* without blocking: when the drain loop has ended and the iteration goes  *)
(* on, the channel holds no event that was sent before the drain began,    *)
(* whatever the kinds of the events.                                       *)
C32_DrainEmptiesChannel ==
    (op = "drain" /\ loop.pc = "frame") => loop.pending = 0

----------------------------------------------------------------------------
(* C33: in every World reached from init_state by move_left, move_right,   *)
(* shoot and tick the status is GameOver if and only if the player has no  *)
(* life left, and the lives are within 0..5.                               *)
C33_GameOverIffNoLives ==
    /\ state.status \in {"Playing", "GameOver"}
    /\ state.status = "GameOver" <=> state.player.lives = 0
    /\ state.player.lives \in 0..5

\* the tick that takes the last life ends the game
C33_Witness ==
    /\ op = "tick"
    /\ prev.status = "Playing"
    /\ prev.player.lives = 1
    /\ PlayerIsHit(prev, drawn)
    /\ state.player.lives = 0
    /\ state.status = "GameOver"

----------------------------------------------------------------------------
\* World w holds at most 3 player bullets unless RapidFire is active
WithinNormalCap(w) == ActiveKind(w) # "RapidFire" => PlayerOwned(w.bullets) <= 3

(* C34 as stated: in every World reached from init_state by moves, shots   *)
(* and ticks at most 3 player-owned standard bullets are in flight         *)
(* whenever RapidFire is not the active power-up, also after RapidFire has *)
(* expired or has been replaced by another kind.  Stated of every          *)
(* transition: a World within the cap is followed by a World within it.    *)
C34_NeverAboveNormalCap ==
    /\ op = "init" => WithinNormalCap(state)
    /\ (op \in InputOps \cup {"tick"} /\ WithinNormalCap(prev)) =>
           WithinNormalCap(state)

(* C34, amended: at most 6 player-owned standard bullets are in flight in  *)
(* every World; a shot leaves at most 3 of them in flight when it adds a   *)
(* bullet while RapidFire is not active, and a tick adds none.  A World    *)
(* with at most 3 in flight whenever RapidFire is not active is followed   *)
(* by such a World, except by the tick in which RapidFire expires or is    *)
(* replaced by another kind: the bullets fired under RapidFire stay in     *)
(* flight, up to 6 of them, with no RapidFire active.                      *)
C34_AboveNormalCapOnlyAfterRapidFire ==
    /\ PlayerOwned(state.bullets) <= 6
    /\ op = "init" => WithinNormalCap(state)
    /\ (op = "shoot" /\ state.bullets # prev.bullets /\ ActiveKind(prev) # "RapidFire") =>
           PlayerOwned(state.bullets) <= 3
    /\ op = "tick" => PlayerOwned(state.bullets) <= PlayerOwned(prev.bullets)
    /\ (op \in InputOps /\ WithinNormalCap(prev)) => WithinNormalCap(state)
    /\ (op = "tick" /\ WithinNormalCap(prev) /\ ActiveKind(prev) # "RapidFire") =>
           WithinNormalCap(state)

\* RapidFire expires in a tick with 6 player bullets in flight: they fly on
\* with no power-up active
C34_Witness ==
    /\ op = "tick"
    /\ prev.active_power_up = <<"RapidFire", 1>>
    /\ PlayerOwned(prev.bullets) = 6
    /\ state.active_power_up = <<>>
    /\ PlayerOwned(state.bullets) = 6

----------------------------------------------------------------------------
\* bullet b is in the rows a moved bullet may keep and in the inner columns
InBulletRange(w, b) ==
    /\ b.y >= 2 /\ b.y <= w.height - 3
    /\ b.x >= 1 /\ b.x <= w.width - 2

\* the elements of a list
RangeOf(seq) == {seq[i] : i \in DOMAIN seq}

(* C35 as stated: in every World a tick returns, every standard bullet,    *)
(* the bullets enemies fired in that tick included, has its row in         *)
(* [2, height-3] and its column in [1, width-2].                           *)
C35_BulletsInsideField ==
    op = "tick" =>
        \A i \in DOMAIN state.bullets : InBulletRange(state, state.bullets[i])

(* C35, amended: in every World a tick returns, every standard bullet that *)
(* was in flight before the tick has its row in [2, height-3] and its      *)
(* column in [1, width-2].  A bullet an enemy fired in that tick is in the *)
(* enemy's column, in [1, width-2], one row below the enemy, and that row  *)
(* can be height-2 or height-1: the bullet is discarded by the move step   *)
(* of the next tick.                                                       *)
C35_BulletsInsideFieldOnceMoved ==
    op = "tick" =>
        /\ \A b \in RangeOf(BulletsMoved(prev)) : InBulletRange(prev, b)
        /\ \A b \in RangeOf(BulletsFired(prev, drawn)) :
              /\ b.x >= 1 /\ b.x <= prev.width - 2
              /\ b.y >= 3 /\ b.y <= prev.height - 1
        /\ \A i \in DOMAIN state.bullets :
              \/ InBulletRange(state, state.bullets[i])
              \/ /\ state.bullets[i] \in RangeOf(BulletsFired(prev, drawn))
                 /\ state.bullets[i].y \in {state.height - 2, state.height - 1}
        /\ RangeOf(state.bullets) \subseteq RangeOf(BulletsFaced(prev, drawn))
        /\ RangeOf(BulletsFired(prev, drawn)) \ {[x |-> prev.player.x, y |-> prev.player.y, owner |-> "Enemy"]}
              \subseteq RangeOf(state.bullets)

\* an enemy steps down to row height-2 and fires: its bullet is in the
\* bottom border row of the World the tick returns, the enemy is purged
C35_Witness ==
    /\ op = "tick"
    /\ \E i \in DOMAIN state.bullets :
          /\ state.bullets[i].owner = "Enemy"
          /\ state.bullets[i].y = state.height - 1
    /\ \E j \in DOMAIN prev.bullets : prev.bullets[j].owner = "Player"
    /\ \E j \in DOMAIN state.bullets : state.bullets[j].owner = "Player"

----------------------------------------------------------------------------
\* bullet i and enemy j of w after the move steps of a tick
BulletUp(w, i) == [w.bullets[i] EXCEPT !.y = @ - 1]
EnemyDown(w, j) == EnemiesMoved(w)[j]

\* player bullet i of w is in a column within 1 of enemy j, rows rows below it
RowsBelow(w, i, j) == w.bullets[i].y - w.enemies[j].y
InLine(w, i, j) ==
    /\ w.bullets[i].owner = "Player"
    /\ w.bullets[i].x - w.enemies[j].x \in -1..1

\* the tick from w moves bullet i from the enemy's row or below to above it
PassesIn(w, i, j) ==
    /\ InLine(w, i, j)
    /\ RowsBelow(w, i, j) >= 0
    /\ BulletUp(w, i).y < EnemyDown(w, j).y

\* bullet i and enemy j of prev are both in the World the tick returned
BothLeft(i, j) ==
    /\ BulletUp(prev, i) \in RangeOf(state.bullets)
    /\ EnemyDown(prev, j) \in RangeOf(state.enemies)

(* C36 as stated: a player bullet never passes through an enemy.  A bullet *)
(* in a column within 1 of an enemy that is in the bullet's row or above   *)
(* does not get above that enemy while both stay in the World: a collision *)
(* removes one of them first, also when the enemy is in row player.y - 1   *)
(* or player.y - 2 at the moment of firing and when it steps down in the   *)
(* tick the bullet steps up.  Stated of every tick.                        *)
C36_BulletNeverPassesEnemy ==
    op = "tick" =>
        \A i \in DOMAIN prev.bullets : \A j \in DOMAIN prev.enemies :
            PassesIn(prev, i, j) => ~BothLeft(i, j)

(* C36, amended: a player bullet fired while an enemy in a column within 1 *)
(* is at least two rows above the bullet's spawn row player.y - 1 does not *)
(* pass that enemy: a tick moves the bullet one row up, leaves it in the   *)
(* enemy's row or below, and no World a tick returns holds a player bullet *)
(* in the box of an enemy, the enemy's row or the row below it, within one *)
(* column.  An enemy in the spawn row itself, or in the row above it when  *)
(* it steps down in the bullet's first tick, is passed without collision.  *)
C36_BulletMeetsEnemyTwoRowsAbove ==
    /\ op = "shoot" =>
          \A i \in DOMAIN state.bullets :
              i > Len(prev.bullets) => state.bullets[i].y = prev.player.y - 1
    /\ op = "tick" =>
          /\ \A i \in DOMAIN prev.bullets : \A j \in DOMAIN prev.enemies :
                (InLine(prev, i, j) /\ RowsBelow(prev, i, j) >= 2) =>
                    /\ ~PassesIn(prev, i, j)
                    /\ BulletUp(prev, i).y - EnemyDown(prev, j).y \in {0, 1} =>
                           ~BothLeft(i, j)
          /\ \A i \in DOMAIN prev.bullets : \A j \in DOMAIN prev.enemies :
                PassesIn(prev, i, j) => RowsBelow(prev, i, j) \in {0, 1}
          /\ \A i \in PlayerIdx(state.bullets) :
                /\ \E k \in PlayerIdx(prev.bullets) : state.bullets[i] = BulletUp(prev, k)
                /\ \A j \in DOMAIN state.enemies :
                      ~Overlaps(state.bullets[i].x, state.bullets[i].y, state.enemies[j])

\* a bullet fired two rows below an enemy one column aside meets it in the
\* tick the enemy steps down; both are removed
C36_Witness ==
    /\ op = "tick" /\ steps = 2
    /\ Len(prev.bullets) = 1 /\ Len(prev.enemies) = 1
    /\ InLine(prev, 1, 1)
    /\ prev.bullets[1].y = prev.player.y - 1
    /\ prev.bullets[1].x # prev.enemies[1].x
    /\ RowsBelow(prev, 1, 1) = 2
    /\ EnemyDown(prev, 1).y = prev.enemies[1].y + 1
    /\ PlayerIdx(state.bullets) = {}
    /\ EnemyDown(prev, 1) \notin RangeOf(state.enemies)
    /\ state.score = prev.score + 150

----------------------------------------------------------------------------
\* enemy j of w is, after the move step of a tick, in the player's row or below
InContact(w, j) == EnemyDown(w, j).y >= w.player.y

\* enemy j of w is left by the bullet and flame collision steps of the tick
NotShot(w, d, j) == EnemyDown(w, j) \in RangeOf(EnemiesLeft(w, d))

\* enemy j of w is killed by a firebomb explosion of the tick
IsBlasted(w, d, j) ==
    \E k \in Blasted(w, d) : EnemiesInField(w, d)[k] = EnemyDown(w, j)

(* C37: contact damage repeats.  In every tick in which an enemy stands in *)
(* the player's row or below once the enemies have moved, and is not       *)
(* destroyed by a bullet or a flame, the player is hit: the lives go down  *)
(* by one, not below 0, before the ExtraLife items caught in the tick are  *)
(* added.  The enemy stays in the World, and so hits again in the next     *)
(* tick, until the tick that moves it to row height-2, which still hits    *)
(* and then purges it; only a firebomb explosion removes it earlier.       *)
C37_ContactDamageRepeats ==
    op = "tick" =>
        \A j \in DOMAIN prev.enemies :
            (InContact(prev, j) /\ NotShot(prev, drawn, j)) =>
                /\ state.player.lives =
                      LET hit == IF prev.player.lives = 0 THEN 0
                                 ELSE prev.player.lives - 1
                          sum == hit + ExtraLives(prev, drawn)
                      IN  IF sum > 5 THEN 5 ELSE sum
                /\ EnemyDown(prev, j).y >= prev.height - 2 =>
                       EnemyDown(prev, j) \notin RangeOf(state.enemies)
                /\ EnemyDown(prev, j).y < prev.height - 2 =>
                       \/ EnemyDown(prev, j) \in RangeOf(state.enemies)
                       \/ IsBlasted(prev, drawn, j)

\* the second of two ticks in which the same enemy, in the row below the
\* player's, takes a life: no enemy bullet is in flight and no enemy fires
C37_Witness ==
    /\ op = "tick" /\ steps = 2
    /\ \E j \in DOMAIN prev.enemies :
          /\ prev.enemies[j].y = prev.player.y + 1
          /\ prev.enemies[j] \in RangeOf(state.enemies)
    /\ \A i \in DOMAIN prev.bullets : prev.bullets[i].owner = "Player"
    /\ drawn.fire = {}
    /\ prev.player.lives = 1
    /\ state.player.lives = 0
    /\ state.status = "GameOver"

----------------------------------------------------------------------------
\* the lives after a tick from w with draws d, with and without a player hit
LivesIfHit(w, d) ==
    LET hit == IF w.player.lives = 0 THEN 0 ELSE w.player.lives - 1
    IN  Min(hit + ExtraLives(w, d), 5)
LivesIfNotHit(w, d) == Min(w.player.lives + ExtraLives(w, d), 5)

\* the indexes of the enemies the tick sees that are killed by a standard
\* bullet or by a flame
ShotByBullet(w, d) == Claimed(BulletsFaced(w, d), EnemiesFaced(w, d))
ShotByFlame(w, d) == Claimed(FlameCells(w), Unclaimed(BulletsFaced(w, d), EnemiesFaced(w, d)))

(* C38: within one tick contact damage is evaluated after the bullet and   *)
(* flame collisions and before the firebomb detonations.  The player is    *)
(* hit by contact only through an enemy left by the bullet and flame       *)
(* steps: when no such enemy is in the player's row or below and no enemy  *)
(* bullet landed, the tick takes no life.  An enemy in the player's row or *)
(* below that a firebomb explosion kills in the tick still hits the        *)
(* player, is removed and scores.  Player bullets and flames are always    *)
(* above the player's row, so an enemy a bullet or a flame kills is always *)
(* above it too.                                                           *)
C38_ContactBetweenBulletsAndBlast ==
    op = "tick" =>
        /\ (BulletsLanded(prev, drawn) = {} /\ ~Contact(prev, drawn)) =>
               state.player.lives = LivesIfNotHit(prev, drawn)
        /\ Contact(prev, drawn) => state.player.lives = LivesIfHit(prev, drawn)
        /\ \A k \in Blasted(prev, drawn) :
               EnemiesInField(prev, drawn)[k].y >= prev.player.y =>
                   /\ state.player.lives = LivesIfHit(prev, drawn)
                   /\ Len(state.enemies) =
                          Len(EnemiesInField(prev, drawn)) - Cardinality(Blasted(prev, drawn))
                   /\ state.score >= prev.score + Points(EnemiesInField(prev, drawn)[k].kind)
        /\ \A j \in ShotByBullet(prev, drawn) :
               EnemiesFaced(prev, drawn)[j].y < prev.player.y
        /\ \A j \in ShotByFlame(prev, drawn) :
               Unclaimed(BulletsFaced(prev, drawn), EnemiesFaced(prev, drawn))[j].y < prev.player.y

\* an enemy in the player's row is killed by the explosion of the firebomb
\* next to it and takes the player's last life in the same tick
C38_Witness ==
    /\ op = "tick"
    /\ \E k \in Blasted(prev, drawn) :
          EnemiesInField(prev, drawn)[k].y = prev.player.y
    /\ BulletsLanded(prev, drawn) = {}
    /\ prev.player.lives = 1
    /\ state.player.lives = 0
    /\ state.status = "GameOver"
    /\ \A j \in DOMAIN state.enemies : state.enemies[j].y < prev.player.y
    /\ state.score >= prev.score + 100

----------------------------------------------------------------------------
(* C39: in the game loop, once the status of the World is GameOver no      *)
(* transition is applied to it: an iteration applies neither a move nor a  *)
(* shot nor a tick, whatever keys are held, and hands the same World to    *)
(* the rendering; the drain of the channel never changes the World.  The   *)
(* loop returns for a restart only while the status is GameOver.           *)
C39_GameOverWorldIsFrozen ==
    /\ (op = "frame" /\ prev.status = "GameOver") =>
           /\ state = prev
           /\ loop.applied = <<>>
    /\ op = "drain" => state = prev
    /\ loop.pc = "restart" => state.status = "GameOver"

\* an iteration on a GameOver World in which the fire key was pressed: the
\* World is the one the previous iteration left
C39_Witness ==
    /\ op = "frame"
    /\ prev.status = "GameOver"
    /\ state = prev
    /\ loop.iterations = 2
    /\ loop.key_frame["Space"] = loop.frame - 1
    /\ loop.shoot_cooldown = 0

----------------------------------------------------------------------------
\* the number of ticks after which enemy e of World w is purged unless it is
\* killed before: it has height - 2 - e.y steps to make, one on every frame
\* that is a multiple of the move interval
EnemyTicksLeft(w, e) ==
    (w.height - 2 - e.y) * MoveEvery(w.level) - (w.frame % MoveEvery(w.level))

\* the number of ticks after which bullet b of World w leaves the rows
\* 2..height-3 unless it is used before
BulletTicksLeft(w, b) ==
    IF b.owner = "Player" THEN b.y - 1 ELSE Max(w.height - 2 - b.y, 1)

(* C40: under repeated ticks every enemy and every standard bullet is      *)
(* removed.  An enemy in a World a tick returns has between 1 and          *)
(* (height - 4) * move_interval ticks left before the boundary purge       *)
(* removes it; it is the enemy the tick spawned, or an enemy of the World  *)
(* before with one tick less left.  A standard bullet has between 1 and    *)
(* height ticks left before the move step discards it; it was fired in the *)
(* tick, or is a bullet of the World before with one tick less left, and a *)
(* bullet a shot adds has at most height ticks left.  So no enemy is in    *)
(* the World more than (height - 4) * move_interval ticks after the tick   *)
(* that spawned it, and no bullet more than height ticks after it was      *)
(* created.                                                                *)
C40_EnemiesAndBulletsLeaveInTime ==
    /\ op = "tick" =>
          /\ \A i \in DOMAIN state.enemies :
                LET e == state.enemies[i]
                IN  /\ EnemyTicksLeft(state, e) >= 1
                    /\ EnemyTicksLeft(state, e) <= (state.height - 4) * MoveEvery(state.level)
                    /\ \/ e \in RangeOf(EnemiesSpawned(prev, drawn))
                       \/ \E j \in DOMAIN prev.enemies :
                             /\ e = EnemyDown(prev, j)
                             /\ EnemyTicksLeft(state, e) =
                                    EnemyTicksLeft(prev, prev.enemies[j]) - 1
          /\ \A i \in DOMAIN state.bullets :
                LET b == state.bullets[i]
                IN  /\ BulletTicksLeft(state, b) >= 1
                    /\ BulletTicksLeft(state, b) <= state.height
                    /\ \/ b \in RangeOf(BulletsFired(prev, drawn))
                       \/ \E j \in DOMAIN prev.bullets :
                             /\ b = [prev.bullets[j] EXCEPT
                                        !.y = IF prev.bullets[j].owner = "Player"
                                              THEN @ - 1 ELSE @ + 1]
                             /\ BulletTicksLeft(state, b) =
                                    BulletTicksLeft(prev, prev.bullets[j]) - 1
          /\ Len(state.enemies) <= Len(prev.enemies) + Len(EnemiesSpawned(prev, drawn))
          /\ Len(state.bullets) <= Len(prev.bullets) + Len(BulletsFired(prev, drawn))
    /\ op = "shoot" =>
          /\ state.enemies = prev.enemies
          /\ \A i \in DOMAIN state.bullets :
                IF i <= Len(prev.bullets) THEN state.bullets[i] = prev.bullets[i]
                ELSE BulletTicksLeft(state, state.bullets[i]) \in 1..state.height

\* the last tick of an enemy and of a player bullet: the enemy steps from row
\* height-3 to row height-2 and is purged, the bullet leaves row 2, and an
\* enemy with more ticks left stays
C40_Witness ==
    /\ op = "tick"
    /\ \E j \in DOMAIN prev.enemies :
          /\ EnemyTicksLeft(prev, prev.enemies[j]) = 1
          /\ EnemyDown(prev, j) \notin RangeOf(state.enemies)
          /\ EnemyDown(prev, j).y = prev.height - 2
    /\ \E i \in DOMAIN state.enemies : EnemyTicksLeft(state, state.enemies[i]) > 1

====
